---- MODULE Spec2Model ----
(***************************************************************************)
(* TreeKEM public and private keys of mlspp (src/src/treekem.cpp) and the  *)
(* group state machine that drives them.                                   *)
(*                                                                         *)
(* Cryptography is symbolic.  A secret is a pair <<b, k>>: the k-th "path" *)
(* HKDF step of the fresh secret number b.  An HPKE private key derived    *)
(* from secret s is [sk |-> s], its public key [pk |-> s].  A ciphertext   *)
(* records the key and context it was made for; decryption with another    *)
(* key or context fails.                                                   *)
(***************************************************************************)
EXTENDS Integers, Sequences, FiniteSets, TLC

\* ------------------------------------------------------------------ bounds
MaxLeaves == 3

\* commits per run
MaxEpoch == 2

\* proposals gathered into one commit
MaxProposals == 2

\* leaves of the public tree driven on its own in SpecWide
MaxWideLeaves == 4

\* the node arrays hold the widest tree
MaxNodes == 2 * MaxWideLeaves - 1

NodeIndexes == 0 .. (MaxNodes - 1)

\* ------------------------------------------------------------ tree math
\* (tree_math.cpp is not part of the source files; section 4.A of the
\* specification defines these functions.)

RECURSIVE Pow2(_)
Pow2(k) == IF k = 0 THEN 1 ELSE 2 * Pow2(k - 1)

RECURSIVE log2(_)
log2(x) == IF x <= 1 THEN 0 ELSE 1 + log2(x \div 2)

RECURSIVE level(_)
level(x) == IF x % 2 = 0 THEN 0 ELSE 1 + level(x \div 2)

\* NodeCount(LeafCount n) = 2n - 1 when n > 0
NodeCount(n) == IF n = 0 THEN 0 ELSE 2 * n - 1

\* LeafCount(NodeCount w): only 0 and odd node counts describe trees
LeafCountDefined(w) == w = 0 \/ w % 2 = 1

LeafCount(w) == IF w = 0 THEN 0 ELSE (w \div 2) + 1

\* NodeIndex(LeafIndex i) = 2i
NodeIndex(i) == 2 * i

root(w) == Pow2(log2(w)) - 1

left(x) == IF level(x) = 0 THEN x ELSE x - Pow2(level(x) - 1)

RECURSIVE clip_left(_, _)
clip_left(r, w) == IF r >= w THEN clip_left(left(r), w) ELSE r

right(x, w) == IF level(x) = 0 THEN x ELSE clip_left(x + Pow2(level(x) - 1), w)

\* the parent of x in a full tree, x being at level k
parent_at(x, k) ==
  IF (x \div Pow2(k + 1)) % 2 = 0 THEN x + Pow2(k) ELSE x - Pow2(k)

parent_step(x) == parent_at(x, level(x))

RECURSIVE clip_parent(_, _)
clip_parent(p, w) == IF p >= w THEN clip_parent(parent_step(p), w) ELSE p

parent(x, w) == IF x = root(w) THEN x ELSE clip_parent(parent_step(x), w)

\* the other child of p
other_child(x, p, w) == IF x < p THEN right(p, w) ELSE IF x > p THEN left(p) ELSE p

sibling(x, w) == other_child(x, parent(x, w), w)

RECURSIVE dirpath(_, _)
dirpath(x, w) ==
  IF w = 0 \/ x = root(w) THEN <<>>
  ELSE <<parent(x, w)>> \o dirpath(parent(x, w), w)

\* in_path(x, y): y is x or an ancestor of x
in_path(x, y) ==
  /\ level(x) <= level(y)
  /\ (x \div Pow2(level(y) + 1)) = (y \div Pow2(level(y) + 1))

RECURSIVE common_ancestor(_, _)
common_ancestor(n, rn) == IF in_path(rn, n) THEN n ELSE common_ancestor(parent_step(n), rn)

\* ancestor(l, r): lowest common ancestor of leaves l and r
ancestor(l, r) == common_ancestor(NodeIndex(l), NodeIndex(r))

\* ------------------------------------------------------- symbolic crypto
NoSecret == <<0, 0>>

\* hkdf_expand_label(suite, path_secret, "path", {}, secret_size)
path_step(secret) == <<secret[1], secret[2] + 1>>

\* HPKEPrivateKey::derive(suite, secret)
Derive(secret) == [sk |-> secret]

\* HPKEPrivateKey::public_key()
PublicKeyOf(priv) == [pk |-> priv.sk]

NoKey == [pk |-> NoSecret]

NoPlaintext == <<0, 0>>

\* HPKEPublicKey::encrypt(suite, context, plaintext)
Encrypt(pub, context, pt) == [to |-> pub, ctx |-> context, pt |-> pt]

\* HPKEPrivateKey::decrypt(suite, context, ciphertext) succeeds only with
\* the matching private key and context
DecryptOk(priv, context, ct) == ct.to = PublicKeyOf(priv) /\ ct.ctx = context

Decrypt(priv, context, ct) == IF DecryptOk(priv, context, ct) THEN ct.pt ELSE NoPlaintext

\* ------------------------------------------------------------ tree nodes
NoCred == 0

\* OptionalNode without a value
Blank == [t |-> "blank", key |-> NoKey, cred |-> NoCred, unmerged |-> <<>>]

\* Node{ KeyPackage }: init_key and the credential's identity
LeafNode(kp) == [t |-> "leaf", key |-> kp.init_key, cred |-> kp.cred, unmerged |-> <<>>]

\* Node{ ParentNode{ public_key, unmerged_leaves, parent_hash } }
ParentNode(pub, unmerged) == [t |-> "parent", key |-> pub, cred |-> NoCred, unmerged |-> unmerged]

KeyPackage(pub, cred) == [init_key |-> pub, cred |-> cred]

has_value(n) == n.t # "blank"

\* node_at(n): the array is indexed from 0
node_at(nodes, n) == nodes[n + 1]

\* Node::public_key()
public_key(n) == n.key

\* std::get<KeyPackage>(node)
key_package_of(n) == KeyPackage(n.key, n.cred)

SeqToSet(s) == {s[i] : i \in 1 .. Len(s)}

\* --------------------------------------------------- TreeKEMPublicKey
\* Each method is one operator; where a method computes a value and then
\* uses it several times, the value is the parameter of a helper operator.

\* TreeKEMPublicKey::size(); defined when LeafCountDefined(Len(nodes))
size(nodes) == LeafCount(Len(nodes))

size_ok(nodes) == LeafCountDefined(Len(nodes))

RECURSIVE first_blank_leaf(_, _)
first_blank_leaf(nodes, index) ==
  IF index < size(nodes) /\ has_value(node_at(nodes, NodeIndex(index)))
  THEN first_blank_leaf(nodes, index + 1)
  ELSE index

\* add_leaf that always appends a new leaf on the right
add_leaf_append(nodes) == size(nodes)

\* the LeafIndex add_leaf returns
add_leaf_index(nodes) == first_blank_leaf(nodes, 0)

\* nodes.resize(n): new slots are blank
resize(nodes, n) == [i \in 1 .. n |-> IF i <= Len(nodes) THEN nodes[i] ELSE Blank]

\* add_leaf recording the new leaf as unmerged at every parent node, on its
\* direct path or not
add_leaf_set_all(nodes, index, dp, kp) ==
  [i \in 1 .. Len(nodes) |->
    IF i - 1 = NodeIndex(index) THEN LeafNode(kp)
    ELSE IF nodes[i].t = "parent"
         THEN ParentNode(nodes[i].key, Append(nodes[i].unmerged, index))
         ELSE nodes[i]]

\* add_leaf: set the leaf and update the unmerged lists along dp
add_leaf_set(nodes, index, dp, kp) ==
  [i \in 1 .. Len(nodes) |->
    IF i - 1 = NodeIndex(index) THEN LeafNode(kp)
    ELSE IF (i - 1) \in dp /\ has_value(nodes[i])
         THEN ParentNode(nodes[i].key, Append(nodes[i].unmerged, index))
         ELSE nodes[i]]

\* add_leaf on the array extended to hold the leaf
add_leaf_in(nodes, index, kp) ==
  add_leaf_set(nodes, index,
               SeqToSet(dirpath(NodeIndex(index), NodeCount(size(nodes)))), kp)

\* add_leaf: extend the tree if necessary
add_leaf_to(nodes, index, kp) ==
  add_leaf_in(IF index >= size(nodes) THEN resize(nodes, NodeIndex(index) + 1) ELSE nodes,
              index, kp)

add_leaf(nodes, kp) == add_leaf_to(nodes, add_leaf_index(nodes), kp)

\* node.reset() for every node of ns and for every parent node of the tree
reset_parents(nodes, ns) ==
  [i \in 1 .. Len(nodes) |->
    IF (i - 1) \in ns \/ level(i - 1) > 0 THEN Blank ELSE nodes[i]]

\* node.reset() for every node of ns
reset_nodes(nodes, ns) ==
  [i \in 1 .. Len(nodes) |-> IF (i - 1) \in ns THEN Blank ELSE nodes[i]]

\* blank_path that resets the leaf and leaves its direct path as it is
blank_leaf(nodes, index) ==
  IF Len(nodes) = 0 THEN nodes ELSE reset_nodes(nodes, {NodeIndex(index)})

blank_path(nodes, index) ==
  IF Len(nodes) = 0 THEN nodes
  ELSE reset_nodes(nodes,
         {NodeIndex(index)}
           \cup SeqToSet(dirpath(NodeIndex(index), NodeCount(size(nodes)))))

update_leaf(nodes, index, kp) ==
  [blank_path(nodes, index) EXCEPT ![NodeIndex(index) + 1] = LeafNode(kp)]

position(dp, n) == CHOOSE i \in 1 .. Len(dp) : dp[i] = n

\* merge: node_at(ni).node = Node{ path.leaf_key_package }
merge_leaf(nodes, ni, path) ==
  [i \in 1 .. Len(nodes) |->
    IF i - 1 = ni THEN LeafNode(path.leaf_key_package) ELSE nodes[i]]

\* merge: the ProtocolError thrown after the leaf is set; "" when none is
merge_error(dp, path) ==
  IF Len(dp) # Len(path.nodes) THEN "Malformed direct path" ELSE ""

\* merge that leaves the unmerged_leaves of the parents it sets as they were
merge_path_keep(nodes, ni, dp, path) ==
  IF merge_error(dp, path) # "" THEN merge_leaf(nodes, ni, path)
  ELSE [i \in 1 .. Len(nodes) |->
         IF i - 1 = ni THEN LeafNode(path.leaf_key_package)
         ELSE IF (i - 1) \in SeqToSet(dp)
              THEN ParentNode(path.nodes[position(dp, i - 1)].public_key,
                              nodes[i].unmerged)
              ELSE nodes[i]]

\* merge: set the leaf, check the size of the path, set the parents along dp
merge_path(nodes, ni, dp, path) ==
  IF merge_error(dp, path) # "" THEN merge_leaf(nodes, ni, path)
  ELSE [i \in 1 .. Len(nodes) |->
         IF i - 1 = ni THEN LeafNode(path.leaf_key_package)
         ELSE IF (i - 1) \in SeqToSet(dp)
              THEN ParentNode(path.nodes[position(dp, i - 1)].public_key, <<>>)
              ELSE nodes[i]]

\* merge(from, path): the node array as the call leaves it, thrown or not
merge(nodes, from, path) ==
  merge_path(nodes, NodeIndex(from),
             dirpath(NodeIndex(from), NodeCount(size(nodes))), path)

\* NodeIndex(x) for every x of unmerged_leaves
node_indexes(unmerged) == [i \in 1 .. Len(unmerged) |-> NodeIndex(unmerged[i])]

\* resolve that lists a blank leaf as well
RECURSIVE resolve_slots(_, _)
resolve_slots(nodes, index) ==
  IF has_value(node_at(nodes, index))
  THEN IF node_at(nodes, index).t = "leaf"
       THEN <<index>>
       ELSE <<index>> \o node_indexes(node_at(nodes, index).unmerged)
  ELSE IF level(index) = 0
       THEN <<index>>
       ELSE resolve_slots(nodes, left(index))
              \o resolve_slots(nodes, right(index, NodeCount(size(nodes))))

RECURSIVE resolve(_, _)
resolve(nodes, index) ==
  IF has_value(node_at(nodes, index))
  THEN IF node_at(nodes, index).t = "leaf"
       THEN <<index>>
       ELSE <<index>> \o node_indexes(node_at(nodes, index).unmerged)
  ELSE IF level(index) = 0
       THEN <<>>
       ELSE resolve(nodes, left(index)) \o resolve(nodes, right(index, NodeCount(size(nodes))))

\* truncate that drops one trailing blank slot and stops
truncate_once(nodes) ==
  IF Len(nodes) # 0 /\ ~has_value(nodes[Len(nodes)])
  THEN [i \in 1 .. (Len(nodes) - 1) |-> nodes[i]]
  ELSE nodes

RECURSIVE truncate(_)
truncate(nodes) ==
  IF Len(nodes) # 0 /\ ~has_value(nodes[Len(nodes)])
  THEN truncate([i \in 1 .. (Len(nodes) - 1) |-> nodes[i]])
  ELSE nodes

\* ------------------------------------------------------- the node hashes
\* OptionalNode::hash of every slot, kept as an array beside the nodes; a
\* hash is the record of what was digested, NoHash the empty byte string.
NoHash == <<>>

\* OptionalNode::set_leaf_hash: index and the optional KeyPackage
leaf_hash(index, node) == <<"leaf", index, node>>

\* OptionalNode::set_parent_hash: index, the optional ParentNode, left, right
parent_hash(index, node, lh, rh) == <<"parent", index, node, lh, rh>>

\* nodes.resize(n): new slots have an empty hash
resize_hashes(hs, n) == [i \in 1 .. n |-> IF i <= Len(hs) THEN hs[i] ELSE NoHash]

\* hash.resize(0) for every node of ns
clear_hashes(hs, ns) == [i \in 1 .. Len(hs) |-> IF (i - 1) \in ns THEN NoHash ELSE hs[i]]

clear_hash_path(hs, index) ==
  clear_hashes(hs, {NodeIndex(index)}
                     \cup SeqToSet(dirpath(NodeIndex(index), NodeCount(LeafCount(Len(hs))))))

\* get_hash, last step: set_parent_hash from the hashes of the two children
get_hash_parent(nodes, hs, index) ==
  [hs EXCEPT ![index + 1] =
    parent_hash(index, nodes[index + 1], hs[left(index) + 1],
                hs[right(index, NodeCount(size(nodes))) + 1])]

\* get_hash(index): the hashes as the call leaves them
RECURSIVE get_hash(_, _, _)
get_hash(nodes, hs, index) ==
  IF hs[index + 1] # NoHash THEN hs
  ELSE IF level(index) = 0
       THEN [hs EXCEPT ![index + 1] = leaf_hash(index, nodes[index + 1])]
       ELSE get_hash_parent(nodes,
                            get_hash(nodes, get_hash(nodes, hs, left(index)),
                                     right(index, NodeCount(size(nodes)))),
                            index)

set_hash_all(nodes, hs) == get_hash(nodes, hs, root(NodeCount(size(nodes))))

\* add_leaf: the hashes after the resize and clear_hash_path(index)
add_leaf_hashes(nodes, hs) ==
  clear_hash_path(IF add_leaf_index(nodes) >= size(nodes)
                  THEN resize_hashes(hs, NodeIndex(add_leaf_index(nodes)) + 1)
                  ELSE hs,
                  add_leaf_index(nodes))

\* blank_path: clear_hash_path(index) unless the tree is empty
blank_path_hashes(hs, index) == IF Len(hs) = 0 THEN hs ELSE clear_hash_path(hs, index)

\* update_leaf: blank_path, then clear_hash_path(index) again
update_leaf_hashes(hs, index) == clear_hash_path(blank_path_hashes(hs, index), index)

\* merge: clear_hash_path(from) and set_hash_all() unless it has thrown
merge_hashes(nodes, hs, from, path) ==
  IF merge_error(dirpath(NodeIndex(from), NodeCount(size(nodes))), path) # "" THEN hs
  ELSE set_hash_all(merge(nodes, from, path), clear_hash_path(hs, from))

\* truncate: a popped slot takes its hash with it; no hash is cleared
truncate_hashes(nodes, hs) == [i \in 1 .. Len(truncate(nodes)) |-> hs[i]]

\* --------------------------------------------------- TreeKEMPrivateKey
NoSecrets == [n \in NodeIndexes |-> NoSecret]

\* TreeKEMPrivateKey{ suite, index, {}, {}, {} }
EmptyPrivateKey(index) ==
  [index |-> index, path_secrets |-> NoSecrets, private_key_cache |-> NoSecrets]

\* implant step that leaves the cached private key of n where it is
implant_at_cached(priv, n, secret) ==
  [priv EXCEPT !.path_secrets[n] = secret]

\* path_secrets[n] = secret; private_key_cache.erase(n)
implant_at(priv, n, secret) ==
  [priv EXCEPT !.path_secrets[n] = secret, !.private_key_cache[n] = NoSecret]

RECURSIVE implant_walk(_, _, _, _, _)
implant_walk(priv, n, r, w, secret) ==
  IF n = r THEN implant_at(priv, n, secret)
  ELSE implant_walk(implant_at(priv, n, secret), parent(n, w), r, w, path_step(secret))

\* implant(start, size, path_secret); size is a LeafCount
implant(priv, start, leaves, path_secret) ==
  implant_walk(priv, start, root(NodeCount(leaves)), NodeCount(leaves), path_secret)

create(leaves, index, leaf_secret) ==
  implant(EmptyPrivateKey(index), NodeIndex(index), leaves, leaf_secret)

\* joiner that implants the path secret from its own leaf, not from intersect
joiner_from_leaf(leaves, index, leaf_secret, intersect, path_secret) ==
  IF path_secret # NoSecret
  THEN implant(EmptyPrivateKey(index), NodeIndex(index), leaves, path_secret)
  ELSE [EmptyPrivateKey(index) EXCEPT !.path_secrets[NodeIndex(index)] = leaf_secret]

\* joiner(suite, size, index, leaf_secret, intersect, path_secret);
\* path_secret = NoSecret stands for std::nullopt
joiner(leaves, index, leaf_secret, intersect, path_secret) ==
  IF path_secret # NoSecret
  THEN implant([EmptyPrivateKey(index) EXCEPT !.path_secrets[NodeIndex(index)] = leaf_secret],
               intersect, leaves, path_secret)
  ELSE [EmptyPrivateKey(index) EXCEPT !.path_secrets[NodeIndex(index)] = leaf_secret]

\* private_key(n) const has a value
has_private_key(priv, n) ==
  priv.private_key_cache[n] # NoSecret \/ priv.path_secrets[n] # NoSecret

\* private_key(n) const: the cached key, else the key derived from the path secret
private_key(priv, n) ==
  IF priv.private_key_cache[n] # NoSecret
  THEN Derive(priv.private_key_cache[n])
  ELSE Derive(priv.path_secrets[n])

\* private_key(n) non-const: memoizes the key it returns
private_key_memo(priv, n) ==
  IF has_private_key(priv, n) /\ priv.private_key_cache[n] = NoSecret
  THEN [priv EXCEPT !.private_key_cache[n] = priv.path_secrets[n]]
  ELSE priv

set_leaf_secret(priv, secret) ==
  [priv EXCEPT !.path_secrets[NodeIndex(priv.index)] = secret]

\* shared_path_secret(to), n being ancestor(index, to): <<node, secret, ok>>
shared_at(priv, n) ==
  IF priv.path_secrets[n] = NoSecret
  THEN <<n, NoSecret, FALSE>>
  ELSE <<n, priv.path_secrets[n], TRUE>>

shared_path_secret(priv, to) == shared_at(priv, ancestor(priv.index, to))

\* the last NodeIndex truncate(size) keeps: NodeIndex(LeafIndex{ size.val - 1 })
\* in uint32_t arithmetic, which for size 0 wraps to a value above every index
last_kept(leaves) == IF leaves = 0 THEN MaxNodes ELSE NodeIndex(leaves - 1)

\* TreeKEMPrivateKey::truncate(size): drop the entries beyond the last leaf
truncate_priv(priv, leaves) ==
  [priv EXCEPT
    !.path_secrets =
      [n \in NodeIndexes |-> IF n > last_kept(leaves) THEN NoSecret ELSE @[n]],
    !.private_key_cache =
      [n \in NodeIndexes |->
         IF n > last_kept(leaves) /\ priv.path_secrets[n] # NoSecret
         THEN NoSecret ELSE @[n]]]

\* consistent(const TreeKEMPublicKey&)
consistent(priv, nodes) ==
  \A n \in NodeIndexes :
    priv.path_secrets[n] # NoSecret =>
      /\ n < Len(nodes)
      /\ has_value(node_at(nodes, n))
      /\ PublicKeyOf(private_key(priv, n)) = public_key(node_at(nodes, n))

\* first position of dp whose node has the leaf ni below it; Len(dp) + 1 if none
RECURSIVE overlap_pos(_, _, _)
overlap_pos(ni, dp, dpi) ==
  IF dpi > Len(dp) THEN dpi
  ELSE IF in_path(ni, dp[dpi]) THEN dpi
  ELSE overlap_pos(ni, dp, dpi + 1)

\* first position of res for which a path secret is held; Len(res) + 1 if none
RECURSIVE res_pos(_, _, _)
res_pos(priv, res, resi) ==
  IF resi > Len(res) THEN resi
  ELSE IF priv.path_secrets[res[resi]] # NoSecret THEN resi
  ELSE res_pos(priv, res, resi + 1)

\* decap that implants the secret one path_step after the decrypted one
decap_implant_next(memo, context, w, overlap_node, key, ct) ==
  IF ~DecryptOk(key, context, ct)
  THEN [err |-> "decrypt", priv |-> memo]
  ELSE [err |-> "",
        priv |-> implant(memo, overlap_node, LeafCount(w),
                         path_step(Decrypt(key, context, ct)))]

\* decap, last part: decrypt and implant.  memo is the private key after
\* private_key(res[resi]) has memoized the key it returned.
decap_implant(memo, context, w, overlap_node, key, ct) ==
  IF ~DecryptOk(key, context, ct)
  THEN [err |-> "decrypt", priv |-> memo]
  ELSE [err |-> "", priv |-> implant(memo, overlap_node, LeafCount(w), Decrypt(key, context, ct))]

\* decap that implants at the overlap node before it looks for a key
decap_res_early(priv, context, w, overlap_node, node_secrets, res, resi) ==
  IF resi = Len(res) + 1
  THEN [err |-> "No private key to decrypt path secret",
        priv |-> implant(priv, overlap_node, LeafCount(w), NoSecret)]
  ELSE decap_implant(private_key_memo(priv, res[resi]), context, w, overlap_node,
                     private_key(priv, res[resi]), node_secrets[resi])

\* decap: the node of the resolution to decrypt with
decap_res(priv, context, w, overlap_node, node_secrets, res, resi) ==
  IF resi = Len(res) + 1
  THEN [err |-> "No private key to decrypt path secret", priv |-> priv]
  ELSE decap_implant(private_key_memo(priv, res[resi]), context, w, overlap_node,
                     private_key(priv, res[resi]), node_secrets[resi])

\* decap: the resolution of the copath node
decap_copath(priv, context, w, overlap_node, node_secrets, res) ==
  IF Len(res) # Len(node_secrets)
  THEN [err |-> "Malformed direct path node", priv |-> priv]
  ELSE decap_res(priv, context, w, overlap_node, node_secrets, res, res_pos(priv, res, 1))

\* decap: the overlap node dp[dpi] and its copath node sibling(last, size)
decap_overlap(priv, from, nodes, context, path, w, dp, dpi) ==
  IF dpi = Len(dp) + 1
  THEN [err |-> "No overlap in path", priv |-> priv]
  ELSE decap_copath(priv, context, w, dp[dpi], path.nodes[dpi].node_secrets,
                    resolve(nodes, sibling(IF dpi = 1 THEN NodeIndex(from) ELSE dp[dpi - 1], w)))

\* decap: the direct path of the sender
decap_path(priv, from, nodes, context, path, w, dp) ==
  IF Len(dp) # Len(path.nodes)
  THEN [err |-> "Malformed direct path", priv |-> priv]
  ELSE decap_overlap(priv, from, nodes, context, path, w, dp,
                     overlap_pos(NodeIndex(priv.index), dp, 1))

\* decap(from, pub, context, path): [err, priv]; err = "" on success, and
\* priv is the private key as the call leaves it
decap(priv, from, nodes, context, path) ==
  decap_path(priv, from, nodes, context, path, NodeCount(size(nodes)),
             dirpath(NodeIndex(from), NodeCount(size(nodes))))

\* ------------------------------------------------ TreeKEMPublicKey::encap
\* private_key(n) non-const for every n of ns
RECURSIVE memo_all(_, _)
memo_all(priv, ns) ==
  IF ns = <<>> THEN priv ELSE memo_all(private_key_memo(priv, Head(ns)), Tail(ns))

\* encap that encrypts the secret of every node to the resolution of the
\* sender's sibling: `last` is never advanced
copath_first(from, dp, i, w) == sibling(NodeIndex(from), w)

\* the copath node of the i-th node of the direct path
copath_at(from, dp, i, w) == sibling(IF i = 1 THEN NodeIndex(from) ELSE dp[i - 1], w)

\* RatchetNode carrying the path secret of the leaf instead of that of n
ratchet_node_leaf(nodes, priv, n, context, res) ==
  [public_key |-> PublicKeyOf(private_key(priv, n)),
   node_secrets |-> [j \in 1 .. Len(res) |->
                      Encrypt(public_key(node_at(nodes, res[j])), context,
                              priv.path_secrets[NodeIndex(priv.index)])]]

\* RatchetNode{ public key of n, path secret of n encrypted to every node of res }
ratchet_node(nodes, priv, n, context, res) ==
  [public_key |-> PublicKeyOf(private_key(priv, n)),
   node_secrets |-> [j \in 1 .. Len(res) |->
                      Encrypt(public_key(node_at(nodes, res[j])), context,
                              priv.path_secrets[n])]]

\* encap: package into a DirectPath; path.sign sets the leaf's init key
encap_direct_path(nodes, from, context, dp, priv) ==
  [leaf_key_package |->
     KeyPackage(PublicKeyOf(private_key(priv, NodeIndex(from))),
                node_at(nodes, NodeIndex(from)).cred),
   nodes |-> [i \in 1 .. Len(dp) |->
               ratchet_node(nodes, priv, dp[i], context,
                            resolve(nodes, copath_at(from, dp, i, NodeCount(size(nodes)))))]]

\* encap: update the public key itself
encap_merge(nodes, from, priv, path) ==
  [priv |-> priv, path |-> path, nodes |-> merge(nodes, from, path)]

\* encap: generate path secrets
encap_create(nodes, from, context, dp, created) ==
  encap_merge(nodes, from, memo_all(created, dp \o <<NodeIndex(from)>>),
              encap_direct_path(nodes, from, context, dp, created))

\* encap(from, context, leaf_secret, sig_priv, opts) on a non-blank leaf:
\* [priv, path, nodes]
encap(nodes, from, context, leaf_secret) ==
  encap_create(nodes, from, context,
               dirpath(NodeIndex(from), NodeCount(size(nodes))),
               create(size(nodes), from, leaf_secret))

\* ------------------------------------------------------------------ state
VARIABLES
  tree,      \* a TreeKEMPublicKey driven directly through its public methods
  hashes,    \* the cached hash of every node of tree
  lastOp,    \* the method last called on tree
  call,      \* that call: the tree before it, its arguments, what it threw
  st,        \* the State of every participant
  msg,       \* the Commit last sent, with its Welcome
  held,      \* every secret a participant's State has ever contained
  truncated, \* the public tree as the truncate() of the latest apply left it
  wire,      \* the MLSCiphertext last made by protect()
  got,       \* what the last unprotect() of wire returned
  probe,     \* a decap or handle(commit) observed on its own: inputs, error, result
  tree_priv, \* a TreeKEMPrivateKey driven directly through its methods
  privCall,  \* the method last called on tree_priv and its arguments
  info,      \* a GroupInfo, as its maker has it or as a receiver decodes it
  infoCall   \* the call last made on info: sign or verify, and what it returned

treeVars == <<tree, hashes, lastOp, call>>

groupVars == <<st, msg, held, truncated>>

appVars == <<wire, got>>

probeVars == <<probe>>

keyVars == <<tree_priv, privCall>>

infoVars == <<info, infoCall>>

vars == <<tree, hashes, lastOp, call, st, msg, held, truncated, wire, got, probe, tree_priv, privCall, info, infoCall>>

\* ------------------------------------------------------------ group state
\* (state.cpp is not part of the source files; sections 3, 4.G and 4.H of
\* the specification define State, and test/state_test.cpp drives it.)

\* identities: a participant is named by the identity of its credential
Members == 1 .. MaxLeaves

NoProposal == [type |-> "none", sender |-> 0, kp |-> KeyPackage(NoKey, NoCred), removed |-> 0]

\* Proposal variants Add{key_package}, Update{key_package}, Remove{removed}
Add(kp) == [NoProposal EXCEPT !.type = "add", !.kp = kp]

Update(sender, kp) == [NoProposal EXCEPT !.type = "update", !.sender = sender, !.kp = kp]

Remove(removed) == [NoProposal EXCEPT !.type = "remove", !.removed = removed]

\* the proposals of one type, in the order received
RECURSIVE OfType(_, _)
OfType(proposals, type) ==
  IF proposals = <<>> THEN <<>>
  ELSE IF Head(proposals).type = type
       THEN <<Head(proposals)>> \o OfType(Tail(proposals), type)
       ELSE OfType(Tail(proposals), type)

\* a participant that has not created or joined a group
NoState ==
  [via |-> "none", epoch |-> 0, index |-> 0, tree |-> <<>>,
   tree_priv |-> EmptyPrivateKey(0), epoch_secret |-> <<>>, pending |-> <<>>,
   init_secret |-> NoSecret, update_secret |-> NoSecret]

joined(state) == state.via # "none"

\* State::State(group_id, suite, init_secret, identity_priv, key_package)
NewState(cred, init_secret) ==
  [NoState EXCEPT
    !.via = "new",
    !.tree = add_leaf(<<>>, KeyPackage(PublicKeyOf(Derive(init_secret)), cred)),
    !.tree_priv = create(1, 0, init_secret),
    !.init_secret = init_secret]

NoPath == [leaf_key_package |-> KeyPackage(NoKey, NoCred), nodes |-> <<>>]

NoWelcome ==
  [present |-> FALSE, epoch |-> 0, tree |-> <<>>, signer_index |-> 0, secrets |-> <<>>]

NoMsg ==
  [present |-> FALSE, epoch |-> 0, sender |-> 0, updates |-> <<>>, removes |-> <<>>,
   adds |-> <<>>, path |-> NoPath, welcome |-> NoWelcome]

\* no call made on the public tree yet
NoCall ==
  [before |-> <<>>, index |-> 0, kp |-> KeyPackage(NoKey, NoCred), path |-> NoPath,
   err |-> ""]

\* no decap or handle observed yet
NoProbe ==
  [present |-> FALSE, op |-> "none", member |-> 0, epoch |-> 0, from |-> 0,
   path |-> NoPath, err |-> "", before |-> NoState, after |-> NoState]

\* no call made on tree_priv yet
NoPrivCall ==
  [op |-> "none", before |-> EmptyPrivateKey(0), leaves |-> 0, node |-> 0,
   secret |-> NoSecret, err |-> ""]

\* no signature: the empty byte string, which no key has made
NoSignature ==
  [by |-> [spk |-> 0],
   data |-> [group_id |-> 0, epoch |-> 0, tree |-> <<>>, confirmed_transcript_hash |-> 0,
             interim_transcript_hash |-> 0, confirmation |-> 0, signer_index |-> 0]]

\* GroupInfo(suite): epoch 0 and an empty tree
NoInfo ==
  [group_id |-> 0, epoch |-> 0, tree |-> <<>>, confirmed_transcript_hash |-> 0,
   interim_transcript_hash |-> 0, confirmation |-> 0, signer_index |-> 0,
   signature |-> NoSignature]

NoInfoCall == [op |-> "none", index |-> 0, priv |-> 0, err |-> "", ok |-> FALSE]

\* GroupContext{group_id, epoch, tree_hash, ...} as the HPKE context.  Only
\* the epoch is kept: a smaller context lets a receiver decrypt in more
\* cases, never in fewer.
GroupContext(epoch, nodes) == [epoch |-> epoch]

\* key schedule: the epoch secret is derived from the previous epoch's
\* init secret and the commit secret
next_epoch_secret(epoch_secret, commit_secret) == Append(epoch_secret, commit_secret)

Creds(nodes) ==
  {nodes[i].cred : i \in {k \in 1 .. Len(nodes) : nodes[k].t = "leaf"}}

NonBlankLeaves(nodes) == {k \in 1 .. Len(nodes) : nodes[k].t = "leaf"}

\* TreeKEMPublicKey::find(kp)
find(nodes, kp) ==
  CHOOSE i \in 0 .. MaxLeaves :
    /\ NodeIndex(i) < Len(nodes)
    /\ node_at(nodes, NodeIndex(i)).t = "leaf"
    /\ key_package_of(node_at(nodes, NodeIndex(i))) = kp
    /\ \A k \in 0 .. (i - 1) :
         ~(node_at(nodes, NodeIndex(k)).t = "leaf"
           /\ key_package_of(node_at(nodes, NodeIndex(k))) = kp)

found(nodes, kp) ==
  \E i \in 0 .. MaxLeaves :
    /\ NodeIndex(i) < Len(nodes)
    /\ node_at(nodes, NodeIndex(i)).t = "leaf"
    /\ key_package_of(node_at(nodes, NodeIndex(i))) = kp

\* State::apply(Update): replace the leaf; the sender also takes its new leaf secret
apply_update(state, u) ==
  [state EXCEPT
    !.tree = update_leaf(@, u.sender, u.kp),
    !.tree_priv = IF u.sender = state.index
                  THEN set_leaf_secret(@, state.update_secret) ELSE @]

RECURSIVE apply_updates(_, _)
apply_updates(state, updates) ==
  IF updates = <<>> THEN state
  ELSE apply_updates(apply_update(state, Head(updates)), Tail(updates))

\* State::apply(Remove)
RECURSIVE apply_removes(_, _)
apply_removes(nodes, removes) ==
  IF removes = <<>> THEN nodes
  ELSE apply_removes(blank_path(nodes, Head(removes).removed), Tail(removes))

\* State::apply(Add): the tree and the leaves the joiners were given
RECURSIVE apply_adds(_, _, _)
apply_adds(nodes, adds, locations) ==
  IF adds = <<>> THEN [tree |-> nodes, locations |-> locations]
  ELSE apply_adds(add_leaf(nodes, Head(adds).kp), Tail(adds),
                  Append(locations, add_leaf_index(nodes)))

\* the tree after the Updates, the Removes and truncate()
apply_truncated(state, cm) ==
  truncate(apply_removes(apply_updates(state, cm.updates).tree, cm.removes))

\* State::apply(commit) is defined when size() of the truncated tree is
apply_ok(state, cm) == size_ok(apply_truncated(state, cm))

\* apply: the state with the tree after the Adds, the private key truncated
apply_result(updated, cut, added) ==
  [state |-> [updated EXCEPT !.tree = added.tree,
                             !.tree_priv = truncate_priv(@, size(cut))],
   locations |-> added.locations]

\* apply: the Adds, on the truncated tree
apply_added(updated, cut, cm) ==
  apply_result(updated, cut, apply_adds(cut, cm.adds, <<>>))

\* apply that adds the new leaves before it blanks the removed ones
apply_adds_first(updated, cm) ==
  apply_result(updated,
               truncate(apply_removes(apply_adds(updated.tree, cm.adds, <<>>).tree,
                                      cm.removes)),
               [tree |-> truncate(apply_removes(apply_adds(updated.tree, cm.adds, <<>>).tree,
                                                cm.removes)),
                locations |-> apply_adds(updated.tree, cm.adds, <<>>).locations])

\* apply: the Removes and truncate(), on the state after the Updates
apply_removed(updated, cm) ==
  apply_added(updated, truncate(apply_removes(updated.tree, cm.removes)), cm)

\* State::apply(commit): Updates, then Removes and truncate(), then Adds:
\* [state, locations]
apply(state, cm) == apply_removed(apply_updates(state, cm.updates), cm)

\* the path secret for a joiner: std::nullopt when shared_path_secret has none
welcome_path_secret(shared) == IF shared[3] THEN shared[2] ELSE NoSecret

\* Welcome::encrypt sealing the epoch secret of the epoch before
welcome_encrypt_previous(epoch_secret, kp, path_secret) ==
  [kp |-> kp,
   ct |-> Encrypt(kp.init_key, <<>>,
                  [epoch_secret |-> SubSeq(epoch_secret, 1, Len(epoch_secret) - 1),
                   path_secret |-> path_secret])]

\* Welcome::encrypt(kp, path_secret): the entry pushed onto secrets, for a
\* Welcome made with _epoch_secret = epoch_secret
welcome_encrypt(epoch_secret, kp, path_secret) ==
  [kp |-> kp,
   ct |-> Encrypt(kp.init_key, <<>>,
                  [epoch_secret |-> epoch_secret, path_secret |-> path_secret])]

\* State::commit: welcome.encrypt(kp, path_secret) for each joiner
welcome_secrets(next, adds, locations) ==
  [i \in 1 .. Len(adds) |->
    welcome_encrypt(next.epoch_secret, adds[i].kp,
                    welcome_path_secret(
                      shared_path_secret(next.tree_priv, locations[i])))]

\* the proposals a commit of state covers
pending_commit(state) ==
  [NoMsg EXCEPT !.updates = OfType(state.pending, "update"),
                !.removes = OfType(state.pending, "remove"),
                !.adds = OfType(state.pending, "add")]

\* commit: the Commit and the Welcome for the next state
commit_next(state, proposals, applied, kem, next) ==
  [msg |-> [proposals EXCEPT
             !.present = TRUE,
             !.epoch = state.epoch,
             !.sender = state.index,
             !.path = kem.path,
             !.welcome = [present |-> proposals.adds # <<>>,
                          epoch |-> next.epoch,
                          tree |-> next.tree,
                          signer_index |-> next.index,
                          secrets |-> welcome_secrets(next, proposals.adds,
                                                      applied.locations)]],
   state |-> next]

\* commit: the next epoch, keyed by the root path secret of the encap
commit_kem(state, proposals, applied, kem) ==
  commit_next(state, proposals, applied, kem,
    [applied.state EXCEPT
      !.via = "commit",
      !.epoch = state.epoch + 1,
      !.tree = kem.nodes,
      !.tree_priv = kem.priv,
      !.epoch_secret = next_epoch_secret(state.epoch_secret,
                                         kem.priv.path_secrets[root(Len(kem.nodes))]),
      !.pending = <<>>,
      !.update_secret = NoSecret])

\* commit: encap on the tree after the proposals
commit_applied(state, leaf_secret, proposals, applied) ==
  commit_kem(state, proposals, applied,
             encap(applied.state.tree, state.index,
                   GroupContext(state.epoch, applied.state.tree), leaf_secret))

\* State::commit(leaf_secret): [msg, state]
commit(state, leaf_secret) ==
  commit_applied(state, leaf_secret, pending_commit(state),
                 apply(state, pending_commit(state)))

\* handle: the next epoch, keyed by the root path secret of the decap
handle_merged(state, applied, kem, nodes) ==
  [err |-> "",
   state |-> [applied EXCEPT
               !.via = "handle",
               !.epoch = state.epoch + 1,
               !.tree = nodes,
               !.tree_priv = kem.priv,
               !.epoch_secret = next_epoch_secret(state.epoch_secret,
                                                  kem.priv.path_secrets[root(Len(nodes))]),
               !.pending = <<>>,
               !.update_secret = NoSecret]]

\* handle: merge the path when decap succeeded
handle_kem(state, cm, applied, kem) ==
  IF kem.err # "" THEN [err |-> kem.err, state |-> state]
  ELSE handle_merged(state, applied, kem, merge(applied.tree, cm.sender, cm.path))

\* handle: decap on the tree after the proposals
handle_applied(state, cm, applied) ==
  handle_kem(state, cm, applied,
             decap(applied.tree_priv, cm.sender, applied.tree,
                   GroupContext(state.epoch, applied.tree), cm.path))

\* handle(commit) that takes a commit of any epoch
handle_any_epoch(state, cm) == handle_applied(state, cm, apply(state, cm).state)

\* State::handle(commit): [err, state]; state is the next State when err = ""
handle(state, cm) ==
  IF cm.epoch # state.epoch THEN [err |-> "epoch", state |-> state]
  ELSE handle_applied(state, cm, apply(state, cm).state)

\* the Welcome entry for kp: Welcome::find
welcome_entry(welcome, kp) ==
  CHOOSE i \in 1 .. Len(welcome.secrets) :
    /\ welcome.secrets[i].kp = kp
    /\ \A k \in 1 .. (i - 1) : welcome.secrets[k].kp # kp

welcome_has(welcome, kp) ==
  welcome.present /\ \E i \in 1 .. Len(welcome.secrets) : welcome.secrets[i].kp = kp

\* join: the State at leaf index, keyed by the decrypted GroupSecrets
join_at(init_secret, welcome, index, secrets) ==
  [NoState EXCEPT
    !.via = "join",
    !.epoch = welcome.epoch,
    !.index = index,
    !.tree = welcome.tree,
    !.tree_priv = joiner(size(welcome.tree), index, init_secret,
                         ancestor(index, welcome.signer_index), secrets.path_secret),
    !.epoch_secret = secrets.epoch_secret,
    !.init_secret = init_secret]

\* join: find the key package in the Welcome and in its tree
join_with(init_secret, welcome, kp) ==
  join_at(init_secret, welcome, find(welcome.tree, kp),
          Decrypt(Derive(init_secret), <<>>,
                  welcome.secrets[welcome_entry(welcome, kp)].ct))

\* State::State(init_secret, identity_priv, key_package, welcome)
join(cred, init_secret, welcome) ==
  join_with(init_secret, welcome, KeyPackage(PublicKeyOf(Derive(init_secret)), cred))

join_ok_with(init_secret, welcome, kp) ==
  /\ welcome_has(welcome, kp)
  /\ DecryptOk(Derive(init_secret), <<>>, welcome.secrets[welcome_entry(welcome, kp)].ct)
  /\ found(welcome.tree, kp)

join_ok(cred, init_secret, welcome) ==
  join_ok_with(init_secret, welcome, KeyPackage(PublicKeyOf(Derive(init_secret)), cred))

\* ------------------------------------------------- message protection
\* (State::protect and State::unprotect are in state.cpp; section 4.H and
\* 4.I of the specification define them.)

\* AEAD: seal under a key, open with the same key
Seal(key, data) == [key |-> key, data |-> data]

OpenOk(key, sealed) == sealed.key = key

\* sender_data_secret and the sender-data key derived from it
sender_data_key(epoch_secret) == <<"sender data", epoch_secret>>

\* the application ratchet of a leaf: key_g of the chain of leaf_secret_0 =
\* DeriveTreeSecret(encryption_secret, "tree", leaf_node_index)
application_key(epoch_secret, sender, generation) ==
  <<"application", epoch_secret, NodeIndex(sender), generation>>

NoCiphertext ==
  [present |-> FALSE, epoch |-> 0,
   sender_data |-> Seal(<<>>, [sender |-> 0, generation |-> 0]),
   content |-> Seal(<<>>, 0)]

\* State::protect(pt), the sender's ratchet being at generation
protect(state, pt, generation) ==
  [present |-> TRUE,
   epoch |-> state.epoch,
   sender_data |-> Seal(sender_data_key(state.epoch_secret),
                        [sender |-> state.index, generation |-> generation]),
   content |-> Seal(application_key(state.epoch_secret, state.index, generation), pt)]

NoResult == [present |-> FALSE, receiver |-> 0, epoch |-> 0, err |-> "", content |-> 0]

\* unprotect: open the content with the key of the sender's ratchet
unprotect_content(state, ct, sender_data) ==
  IF ~OpenOk(application_key(state.epoch_secret, sender_data.sender,
                             sender_data.generation), ct.content)
  THEN [NoResult EXCEPT !.err = "content"]
  ELSE [NoResult EXCEPT !.content = ct.content.data]

\* State::unprotect(ct): [err, content]; err = "" on success
unprotect(state, ct) ==
  IF ct.epoch # state.epoch THEN [NoResult EXCEPT !.err = "epoch"]
  ELSE IF ~OpenOk(sender_data_key(state.epoch_secret), ct.sender_data)
       THEN [NoResult EXCEPT !.err = "sender data"]
       ELSE unprotect_content(state, ct, ct.sender_data.data)

\* ---------------------------------------------------------- group actions
\* Fresh secrets (random_bytes in the tests) are named by where they are
\* drawn, so that no two draws give the same secret: the init secret of a
\* participant, the leaf secret of the Update a member makes in an epoch,
\* and the leaf secret of the Commit of an epoch.
InitSecret(j) == <<j, 0>>

UpdateSecret(epoch, m) == <<100 * (epoch + 1) + m, 0>>

CommitSecret(epoch) == <<100 * (epoch + 1), 0>>

Joined == {m \in Members : joined(st[m])}

\* a participant in the latest epoch
Latest == CHOOSE m \in Joined : \A o \in Joined : st[o].epoch <= st[m].epoch

\* the participants whose credential is in the latest tree
Roster == Creds(st[Latest].tree)

\* every member of the latest tree has reached the latest epoch
AllAccepted ==
  \A m \in Roster : joined(st[m]) /\ st[m].epoch = st[Latest].epoch

secrets_of(state) ==
  ({state.tree_priv.path_secrets[n] : n \in NodeIndexes}
     \cup {state.tree_priv.private_key_cache[n] : n \in NodeIndexes}
     \cup {state.init_secret, state.update_secret}) \ {NoSecret}

hold(states) == [m \in Members |-> held[m] \cup secrets_of(states[m])]

\* Application messages leave every State as it is, so the handshake is
\* followed from the states in which none has been sent.
Quiet == ~wire.present /\ ~probe.present

\* proposals are made once every member has accepted the last commit
CanPropose ==
  /\ Quiet
  /\ AllAccepted
  /\ Len(st[Latest].pending) < MaxProposals

\* handle(proposal) at every member: pending_proposals grows by the proposal
broadcast(p) ==
  [m \in Members |->
    IF m \in Roster THEN [st[m] EXCEPT !.pending = Append(@, p)] ELSE st[m]]

Init ==
  /\ tree = <<>>
  /\ hashes = <<>>
  /\ lastOp = "new"
  /\ call = NoCall
  /\ st = [m \in Members |-> IF m = 1 THEN NewState(1, InitSecret(1)) ELSE NoState]
  /\ msg = NoMsg
  /\ held = [m \in Members |-> IF m = 1 THEN {InitSecret(1)} ELSE {}]
  /\ truncated = <<>>
  /\ wire = NoCiphertext
  /\ got = NoResult
  /\ probe = NoProbe
  /\ tree_priv = EmptyPrivateKey(0)
  /\ privCall = NoPrivCall
  /\ info = NoInfo
  /\ infoCall = NoInfoCall

\* State::add(key_package) for the key package of a new participant, handled
\* by every member
ProposeAdd ==
  /\ CanPropose
  /\ \E j \in Members :
       /\ ~joined(st[j]) /\ st[j].init_secret = NoSecret
       /\ \A k \in 1 .. (j - 1) : joined(st[k]) \/ st[k].init_secret # NoSecret
       /\ Cardinality(NonBlankLeaves(st[Latest].tree))
            + Len(OfType(st[Latest].pending, "add")) < MaxLeaves
       /\ \E states \in {[broadcast(Add(KeyPackage(PublicKeyOf(Derive(InitSecret(j))), j)))
                            EXCEPT ![j].init_secret = InitSecret(j)]} :
            /\ st' = states
            /\ held' = hold(states)
       /\ UNCHANGED <<msg, truncated, treeVars, appVars, probeVars, keyVars, infoVars>>

\* State::update(leaf_secret), handled by every member
ProposeUpdate ==
  /\ CanPropose
  /\ \E m \in Roster :
       /\ st[m].update_secret = NoSecret
       /\ \E leaf_secret \in {UpdateSecret(st[m].epoch, m)} :
          \E states \in {[broadcast(Update(st[m].index,
                                           KeyPackage(PublicKeyOf(Derive(leaf_secret)), m)))
                            EXCEPT ![m].update_secret = leaf_secret]} :
            /\ st' = states
            /\ held' = hold(states)
       /\ UNCHANGED <<msg, truncated, treeVars, appVars, probeVars, keyVars, infoVars>>

\* State::remove(index), handled by every member
ProposeRemove ==
  /\ CanPropose
  /\ \E r \in Roster :
       /\ \A i \in 1 .. Len(st[Latest].pending) : st[Latest].pending[i] # Remove(st[r].index)
       /\ st' = broadcast(Remove(st[r].index))
       /\ UNCHANGED <<msg, held, truncated, treeVars, appVars, probeVars, keyVars, infoVars>>

\* the committer's leaf is not blank after the proposals
can_encap(state) ==
  \A i \in 1 .. Len(state.pending) : state.pending[i] # Remove(state.index)

\* State::commit(leaf_secret): the committer takes its next state
Commit ==
  /\ Quiet
  /\ AllAccepted
  /\ st[Latest].epoch < MaxEpoch
  /\ \E c \in Roster :
       /\ can_encap(st[c])
       /\ apply_ok(st[c], pending_commit(st[c]))
       /\ \E done \in {commit(st[c], CommitSecret(st[c].epoch))} :
          \E states \in {[st EXCEPT ![c] = done.state]} :
            /\ st' = states
            /\ msg' = done.msg
            /\ held' = hold(states)
            /\ truncated' = apply_truncated(st[c], pending_commit(st[c]))
       /\ UNCHANGED <<treeVars, appVars, probeVars, keyVars, infoVars>>

\* State::commit(leaf_secret) throws: size() of the truncated tree is undefined
CommitFails ==
  /\ Quiet
  /\ AllAccepted
  /\ \E c \in Roster :
       /\ can_encap(st[c])
       /\ ~apply_ok(st[c], pending_commit(st[c]))
       /\ truncated' = apply_truncated(st[c], pending_commit(st[c]))
       /\ UNCHANGED <<st, msg, held, treeVars, appVars, probeVars, keyVars, infoVars>>

\* State::handle(commit) at a member of the commit's epoch
HandleCommit ==
  /\ Quiet
  /\ msg.present
  /\ \E m \in Joined :
       /\ st[m].epoch = msg.epoch
       /\ \E done \in {handle(st[m], msg)} :
          \E states \in {[st EXCEPT ![m] = done.state]} :
            /\ done.err = ""
            /\ st' = states
            /\ held' = hold(states)
            /\ truncated' = apply_truncated(st[m], msg)
       /\ UNCHANGED <<msg, treeVars, appVars, probeVars, keyVars, infoVars>>

\* a new participant builds its State from the Welcome
Join ==
  \E j \in Members :
    /\ Quiet
    /\ ~joined(st[j])
    /\ st[j].init_secret # NoSecret
    /\ join_ok(j, st[j].init_secret, msg.welcome)
    /\ \E states \in {[st EXCEPT ![j] = join(j, st[j].init_secret, msg.welcome)]} :
         /\ st' = states
         /\ held' = hold(states)
    /\ UNCHANGED <<msg, truncated, treeVars, appVars, probeVars, keyVars, infoVars>>

Next ==
  \/ ProposeAdd
  \/ ProposeUpdate
  \/ ProposeRemove
  \/ Commit
  \/ CommitFails
  \/ HandleCommit
  \/ Join

Spec == Init /\ [][Next]_vars

\* ------------------------------------------------ application messages
\* the application data and the ratchet generations the senders are at
Messages == {1, 2}

Generations == {0, 1}

\* State::protect(pt) at a member
Protect ==
  \E s \in Joined, pt \in Messages, generation \in Generations :
    /\ wire' = protect(st[s], pt, generation)
    /\ got' = NoResult
    /\ UNCHANGED <<groupVars, treeVars, probeVars, keyVars, infoVars>>

\* State::unprotect(ct) at a member
Unprotect ==
  /\ wire.present
  /\ \E r \in Joined :
       got' = [unprotect(st[r], wire) EXCEPT
                 !.present = TRUE, !.receiver = r, !.epoch = st[r].epoch]
  /\ UNCHANGED <<wire, groupVars, treeVars, probeVars, keyVars, infoVars>>

AppNext ==
  \/ Next
  \/ Protect
  \/ Unprotect

SpecApp == Init /\ [][AppNext]_vars

\* ------------------------------------------------- calls that are refused
\* The commit in flight reaches a member with its DirectPath as sent, with a
\* RatchetNode dropped or added, or with a ciphertext dropped or added at
\* every node; and a commit reaches a member under another epoch than the
\* member's.  The member's State is not replaced: what the call did to the
\* copy it worked on is kept in probe.
\* path with its nodes cut or padded to n RatchetNodes
resize_path(path, n, filler) ==
  [path EXCEPT !.nodes = [i \in 1 .. n |-> IF i <= Len(path.nodes) THEN path.nodes[i]
                                          ELSE filler]]

resize_secrets(node_secrets, n, filler) ==
  [i \in 1 .. n |-> IF i <= Len(node_secrets) THEN node_secrets[i] ELSE filler]

\* path with the ciphertext list of every node cut or padded by d
reshape_path(path, d, filler) ==
  [path EXCEPT !.nodes =
    [i \in 1 .. Len(path.nodes) |->
      [public_key |-> path.nodes[i].public_key,
       node_secrets |-> resize_secrets(path.nodes[i].node_secrets,
                                       IF Len(path.nodes[i].node_secrets) + d < 0 THEN 0
                                       ELSE Len(path.nodes[i].node_secrets) + d,
                                       filler)]]]

NoRatchetNode == [public_key |-> NoKey, node_secrets |-> <<>>]

ReceivedPaths(path) ==
  {path}
    \cup {resize_path(path, n, NoRatchetNode) :
            n \in {k \in (Len(path.nodes) - 1) .. (Len(path.nodes) + 1) : k >= 0}}
    \cup {reshape_path(path, d, Encrypt(NoKey, <<>>, NoSecret)) : d \in {-1, 1}}

\* TreeKEMPrivateKey::decap at a member of the commit's epoch, on the tree
\* and private key State::handle has after applying the proposals
Decap ==
  /\ Quiet
  /\ msg.present
  /\ \E m \in Joined :
       /\ st[m].epoch = msg.epoch
       /\ apply_ok(st[m], msg)
       /\ \E applied \in {apply(st[m], msg).state}, path \in ReceivedPaths(msg.path) :
          \E done \in {decap(applied.tree_priv, msg.sender, applied.tree,
                               GroupContext(st[m].epoch, applied.tree), path)} :
            probe' = [NoProbe EXCEPT
                       !.present = TRUE, !.op = "decap", !.member = m,
                       !.epoch = msg.epoch, !.from = msg.sender, !.path = path,
                       !.err = done.err, !.before = applied,
                       !.after = [applied EXCEPT !.tree_priv = done.priv]]
  /\ UNCHANGED <<groupVars, treeVars, appVars, keyVars, infoVars>>

Epochs == 0 .. (MaxEpoch + 1)

\* State::handle(commit) at a member, the commit being of any epoch
HandleAnyEpoch ==
  /\ Quiet
  /\ msg.present
  /\ \E m \in Joined, epoch \in Epochs :
       /\ epoch # st[m].epoch
       /\ \E cm \in {[msg EXCEPT !.epoch = epoch]} :
          \E done \in {handle(st[m], cm)} :
            probe' = [NoProbe EXCEPT
                       !.present = TRUE, !.op = "handle", !.member = m,
                       !.epoch = epoch, !.from = cm.sender, !.path = cm.path,
                       !.err = done.err, !.before = st[m], !.after = done.state]
  /\ UNCHANGED <<groupVars, treeVars, appVars, keyVars, infoVars>>

ProbeNext ==
  \/ Next
  \/ Decap
  \/ HandleAnyEpoch

SpecProbe == Init /\ [][ProbeNext]_vars

\* ------------------------------------------- a TreeKEMPublicKey on its own
\* SpecTree and SpecWide follow the node array only; SpecHash follows the
\* cached node hashes as well.
\* leaf secrets and credentials the callers draw from
TreeSecrets == {<<1, 0>>, <<2, 0>>}

TreeCreds == {1}

TreeKeyPackages == {KeyPackage(PublicKeyOf(Derive(s)), c) : s \in TreeSecrets, c \in TreeCreds}

LeafIndexes(nodes) == 0 .. (size(nodes) - 1)

\* a DirectPath as a remote encap from leaf `from` with leaf secret s makes it
remote_path(dp, priv, s, c) ==
  [leaf_key_package |-> KeyPackage(PublicKeyOf(Derive(s)), c),
   nodes |-> [i \in 1 .. Len(dp) |->
               [public_key |-> PublicKeyOf(private_key(priv, dp[i])),
                node_secrets |-> <<>>]]]

RemotePath(nodes, from, s, c) ==
  remote_path(dirpath(NodeIndex(from), NodeCount(size(nodes))),
              create(size(nodes), from, s), s, c)

\* the DirectPaths a caller may hand to merge(from, path): the one a remote
\* encap makes, and the same with up to slack nodes less or more
TreePaths(nodes, from, s, c, slack) ==
  {resize_path(RemotePath(nodes, from, s, c), n,
               [public_key |-> PublicKeyOf(Derive(s)), node_secrets |-> <<>>]) :
     n \in {k \in (Len(dirpath(NodeIndex(from), NodeCount(size(nodes)))) - slack)
                    .. (Len(dirpath(NodeIndex(from), NodeCount(size(nodes)))) + slack) :
              k >= 0}}

TreeInit ==
  /\ tree = <<>>
  /\ hashes = <<>>
  /\ lastOp = "new"
  /\ call = NoCall
  /\ st = [m \in Members |-> NoState]
  /\ msg = NoMsg
  /\ held = [m \in Members |-> {}]
  /\ truncated = <<>>
  /\ wire = NoCiphertext
  /\ got = NoResult
  /\ probe = NoProbe
  /\ tree_priv = EmptyPrivateKey(0)
  /\ privCall = NoPrivCall
  /\ info = NoInfo
  /\ infoCall = NoInfoCall

\* add_leaf(kp) while the tree has room for a leaf
tree_add_leaf(leaves, kps) ==
  \E kp \in kps :
    /\ size_ok(tree)
    /\ add_leaf_index(tree) < leaves
    /\ tree' = add_leaf(tree, kp)
    /\ lastOp' = "add_leaf"
    /\ call' = [NoCall EXCEPT !.before = tree, !.index = add_leaf_index(tree), !.kp = kp]
    /\ UNCHANGED <<groupVars, appVars, probeVars, keyVars, infoVars>>

tree_update_leaf(kps) ==
  \E kp \in kps :
    /\ size_ok(tree)
    /\ \E index \in LeafIndexes(tree) :
         /\ tree' = update_leaf(tree, index, kp)
         /\ lastOp' = "update_leaf"
         /\ call' = [NoCall EXCEPT !.before = tree, !.index = index, !.kp = kp]
         /\ UNCHANGED <<groupVars, appVars, probeVars, keyVars, infoVars>>

\* merge(from, path) with a DirectPath of the right number of nodes or not
tree_merge(secrets, creds, slack) ==
  \E s \in secrets, c \in creds :
    /\ size_ok(tree)
    /\ \E from \in LeafIndexes(tree) :
       \E path \in TreePaths(tree, from, s, c, slack) :
         /\ tree' = merge(tree, from, path)
         /\ lastOp' = "merge"
         /\ call' = [NoCall EXCEPT
                       !.before = tree, !.index = from, !.path = path,
                       !.err = merge_error(dirpath(NodeIndex(from), NodeCount(size(tree))),
                                           path)]
         /\ UNCHANGED <<groupVars, appVars, probeVars, keyVars, infoVars>>

tree_encap(secrets) ==
  \E s \in secrets :
    /\ size_ok(tree)
    /\ \E from \in LeafIndexes(tree) :
         /\ has_value(node_at(tree, NodeIndex(from)))
         /\ \E done \in {encap(tree, from, <<>>, s)} :
              /\ tree' = done.nodes
              /\ call' = [NoCall EXCEPT !.before = tree, !.index = from, !.path = done.path]
         /\ lastOp' = "encap"
         /\ UNCHANGED <<groupVars, appVars, probeVars, keyVars, infoVars>>

TreeAddLeaf == tree_add_leaf(MaxLeaves, TreeKeyPackages) /\ UNCHANGED hashes

TreeUpdateLeaf == tree_update_leaf(TreeKeyPackages) /\ UNCHANGED hashes

tree_blank_path ==
  /\ size_ok(tree)
  /\ \E index \in LeafIndexes(tree) :
       /\ tree' = blank_path(tree, index)
       /\ lastOp' = "blank_path"
       /\ call' = [NoCall EXCEPT !.before = tree, !.index = index]
       /\ UNCHANGED <<groupVars, appVars, probeVars, keyVars, infoVars>>

TreeMerge == tree_merge(TreeSecrets, TreeCreds, 1) /\ UNCHANGED hashes

TreeEncap == tree_encap(TreeSecrets) /\ UNCHANGED hashes

tree_truncate ==
  /\ tree' = truncate(tree)
  /\ lastOp' = "truncate"
  /\ call' = [NoCall EXCEPT !.before = tree]
  /\ UNCHANGED <<groupVars, appVars, probeVars, keyVars, infoVars>>

TreeBlankPath == tree_blank_path /\ UNCHANGED hashes

TreeTruncate == tree_truncate /\ UNCHANGED hashes

TreeNext ==
  \/ TreeAddLeaf
  \/ TreeUpdateLeaf
  \/ TreeBlankPath
  \/ TreeMerge
  \/ TreeEncap
  \/ TreeTruncate

SpecTree == TreeInit /\ [][TreeNext]_vars

\* ------------------------------------------------- the same, a leaf wider
\* A tree of MaxWideLeaves leaves has direct paths of two parents; every
\* leaf gets the same key package and every DirectPath is well-formed.
WideSecrets == {<<1, 0>>}

WideKeyPackages == {KeyPackage(PublicKeyOf(Derive(s)), c) : s \in WideSecrets, c \in TreeCreds}

WideAddLeaf == tree_add_leaf(MaxWideLeaves, WideKeyPackages) /\ UNCHANGED hashes

WideUpdateLeaf == tree_update_leaf(WideKeyPackages) /\ UNCHANGED hashes

WideMerge == tree_merge(WideSecrets, TreeCreds, 0) /\ UNCHANGED hashes

WideEncap == tree_encap(WideSecrets) /\ UNCHANGED hashes

WideNext ==
  \/ WideAddLeaf
  \/ WideUpdateLeaf
  \/ TreeBlankPath
  \/ WideMerge
  \/ WideEncap
  \/ TreeTruncate

SpecWide == TreeInit /\ [][WideNext]_vars

\* ------------------------------------------- the tree and its node hashes
\* The calls of SpecWide, each with what it does to the cached hashes.
HashAddLeaf ==
  /\ tree_add_leaf(MaxWideLeaves, WideKeyPackages)
  /\ hashes' = add_leaf_hashes(tree, hashes)

HashUpdateLeaf ==
  /\ tree_update_leaf(WideKeyPackages)
  /\ hashes' = update_leaf_hashes(hashes, call'.index)

HashBlankPath ==
  /\ tree_blank_path
  /\ hashes' = blank_path_hashes(hashes, call'.index)

HashMerge ==
  /\ tree_merge(WideSecrets, TreeCreds, 0)
  /\ hashes' = merge_hashes(tree, hashes, call'.index, call'.path)

HashEncap ==
  /\ tree_encap(WideSecrets)
  /\ hashes' = merge_hashes(tree, hashes, call'.index, call'.path)

HashTruncate ==
  /\ tree_truncate
  /\ hashes' = truncate_hashes(tree, hashes)

HashNext ==
  \/ HashAddLeaf
  \/ HashUpdateLeaf
  \/ HashBlankPath
  \/ HashMerge
  \/ HashEncap
  \/ HashTruncate

SpecHash == TreeInit /\ [][HashNext]_vars

\* ------------------------------------------- a TreeKEMPrivateKey on its own
\* The key is made by create, joiner or encap and then driven through
\* implant, private_key, set_leaf_secret, decap and truncate, with the tree
\* sizes, nodes and secrets a State may pass.
KeySecrets == {<<1, 0>>}

\* the secrets set_leaf_secret and a Welcome bring
LeafSecrets == {<<1, 0>>, <<2, 0>>}

\* the leaf secret of every other member of the trees decap and encap run on
OtherSecret == <<3, 0>>

KeyLeaves == 1 .. MaxLeaves

\* the leaf of index and its direct path in a tree of that many leaves
own_path(index, leaves) ==
  <<NodeIndex(index)>> \o dirpath(NodeIndex(index), NodeCount(leaves))

\* a public tree of that many leaves, no parent set, in which the leaf of
\* priv carries the key of the leaf secret priv holds
RECURSIVE key_tree(_, _)
key_tree(priv, leaves) ==
  IF leaves = 0 THEN <<>>
  ELSE add_leaf(key_tree(priv, leaves - 1),
                KeyPackage(PublicKeyOf(Derive(IF leaves - 1 = priv.index
                                              THEN priv.path_secrets[NodeIndex(priv.index)]
                                              ELSE OtherSecret)),
                           1))

created == privCall.op # "none"

KeyCreate ==
  \E leaves \in KeyLeaves, s \in KeySecrets :
  \E index \in 0 .. (leaves - 1) :
    /\ tree_priv' = create(leaves, index, s)
    /\ privCall' = [NoPrivCall EXCEPT
                      !.op = "create", !.leaves = leaves,
                      !.node = NodeIndex(index), !.secret = s]
    /\ UNCHANGED <<treeVars, groupVars, appVars, probeVars, infoVars>>

\* joiner for a member added by the commit of the member at leaf `from`,
\* with or without a path secret in its GroupSecrets
KeyJoiner ==
  \E leaves \in KeyLeaves, s \in KeySecrets, ps \in {<<2, 0>>, NoSecret} :
  \E index \in 0 .. (leaves - 1), from \in 0 .. (leaves - 1) :
    /\ from # index
    /\ tree_priv' = joiner(leaves, index, s, ancestor(index, from), ps)
    /\ privCall' = [NoPrivCall EXCEPT
                      !.op = "joiner", !.leaves = leaves,
                      !.node = ancestor(index, from), !.secret = ps]
    /\ UNCHANGED <<treeVars, groupVars, appVars, probeVars, infoVars>>

\* implant(start, size, path_secret), start on the key's own path
KeyImplant ==
  /\ created
  /\ \E leaves \in KeyLeaves, s \in KeySecrets :
       /\ tree_priv.index < leaves
       /\ \E k \in 1 .. Len(own_path(tree_priv.index, leaves)) :
            /\ tree_priv' = implant(tree_priv, own_path(tree_priv.index, leaves)[k], leaves, s)
            /\ privCall' = [NoPrivCall EXCEPT
                              !.op = "implant", !.before = tree_priv, !.leaves = leaves,
                              !.node = own_path(tree_priv.index, leaves)[k], !.secret = s]
  /\ UNCHANGED <<treeVars, groupVars, appVars, probeVars, infoVars>>

\* private_key(n), the non-const overload
KeyPrivateKey ==
  /\ created
  /\ \E n \in 0 .. (NodeCount(MaxLeaves) - 1) :
       /\ tree_priv' = private_key_memo(tree_priv, n)
       /\ privCall' = [NoPrivCall EXCEPT
                         !.op = "private_key", !.node = n]
  /\ UNCHANGED <<treeVars, groupVars, appVars, probeVars, infoVars>>

KeySetLeafSecret ==
  /\ created
  /\ \E s \in LeafSecrets :
       /\ tree_priv' = set_leaf_secret(tree_priv, s)
       /\ privCall' = [NoPrivCall EXCEPT
                         !.op = "set_leaf_secret", !.node = NodeIndex(tree_priv.index), !.secret = s]
  /\ UNCHANGED <<treeVars, groupVars, appVars, probeVars, infoVars>>

\* decap of the DirectPath the member at leaf `from` makes by encap on the
\* tree key_tree(tree_priv, leaves)
KeyDecap ==
  /\ created
  /\ tree_priv.path_secrets[NodeIndex(tree_priv.index)] # NoSecret
  /\ \E leaves \in KeyLeaves :
       /\ tree_priv.index < leaves
       /\ \E from \in 0 .. (leaves - 1) :
            /\ from # tree_priv.index
            /\ \E sent \in {encap(key_tree(tree_priv, leaves), from, <<>>, OtherSecret)} :
               \E done \in {decap(tree_priv, from, key_tree(tree_priv, leaves), <<>>,
                                    sent.path)} :
                 /\ tree_priv' = done.priv
                 /\ privCall' = [NoPrivCall EXCEPT
                                   !.op = "decap", !.before = tree_priv, !.leaves = leaves,
                                   !.node = ancestor(tree_priv.index, from),
                                   !.secret = sent.priv.path_secrets[ancestor(tree_priv.index, from)],
                                   !.err = done.err]
  /\ UNCHANGED <<treeVars, groupVars, appVars, probeVars, infoVars>>

\* encap(from, ...) of the tree of the member itself: the key it returns
KeyEncap ==
  /\ created
  /\ tree_priv.path_secrets[NodeIndex(tree_priv.index)] # NoSecret
  /\ \E leaves \in KeyLeaves, s \in KeySecrets :
       /\ tree_priv.index < leaves
       /\ tree_priv' = encap(key_tree(tree_priv, leaves), tree_priv.index, <<>>, s).priv
       /\ privCall' = [NoPrivCall EXCEPT
                         !.op = "encap", !.leaves = leaves,
                         !.node = NodeIndex(tree_priv.index), !.secret = s]
  /\ UNCHANGED <<treeVars, groupVars, appVars, probeVars, infoVars>>

\* truncate(size)
KeyTruncate ==
  /\ created
  /\ \E leaves \in 0 .. MaxLeaves :
       /\ tree_priv' = truncate_priv(tree_priv, leaves)
       /\ privCall' = [NoPrivCall EXCEPT
                         !.op = "truncate", !.leaves = leaves]
  /\ UNCHANGED <<treeVars, groupVars, appVars, probeVars, infoVars>>

KeyNext ==
  \/ KeyCreate
  \/ KeyJoiner
  \/ KeyImplant
  \/ KeyPrivateKey
  \/ KeySetLeafSecret
  \/ KeyDecap
  \/ KeyEncap
  \/ KeyTruncate

SpecKey == TreeInit /\ [][KeyNext]_vars

\* ------------------------------------------------------ GroupInfo (messages.cpp)
\* A signature key pair is a number k: the private key k, the public key
\* [spk |-> k].  The credential c of a leaf carries the public key of c.  A
\* signature records the key that made it and the bytes it was made over.
SigPublicKey(k) == [spk |-> k]

Sign(priv, data) == [by |-> SigPublicKey(priv), data |-> data]

Verify(pub, data, sig) == sig.by = pub /\ sig.data = data

\* TreeKEMPublicKey::key_package(index): the leaf, blank for std::nullopt
key_package(nodes, index) == node_at(nodes, NodeIndex(index))

\* GroupInfo::to_be_signed(): every field but the signature
to_be_signed(gi) ==
  [group_id |-> gi.group_id, epoch |-> gi.epoch, tree |-> gi.tree,
   confirmed_transcript_hash |-> gi.confirmed_transcript_hash,
   interim_transcript_hash |-> gi.interim_transcript_hash,
   confirmation |-> gi.confirmation, signer_index |-> gi.signer_index]

\* GroupInfo::sign, last two lines, on gi with signer_index already set
sign_as(gi, priv) == [gi EXCEPT !.signature = Sign(priv, to_be_signed(gi))]

\* GroupInfo::sign(index, priv): [err, info]; err = "" when it returns
sign(gi, index, priv) ==
  IF ~has_value(key_package(gi.tree, index))
  THEN [err |-> "Cannot sign from a blank leaf", info |-> gi]
  ELSE IF SigPublicKey(key_package(gi.tree, index).cred) # SigPublicKey(priv)
       THEN [err |-> "Bad key for index", info |-> gi]
       ELSE [err |-> "", info |-> sign_as([gi EXCEPT !.signer_index = index], priv)]

\* GroupInfo::verify(): [err, ok]; err = "" when it returns, ok what it returns
verify(gi) ==
  IF ~has_value(key_package(gi.tree, gi.signer_index))
  THEN [err |-> "Cannot sign from a blank leaf", ok |-> FALSE]
  ELSE [err |-> "",
        ok |-> Verify(SigPublicKey(key_package(gi.tree, gi.signer_index).cred),
                      to_be_signed(gi), gi.signature)]

InfoCreds == {1, 2}

InfoValues == {1, 2}

\* the two-leaf tree of the credentials a and b
info_tree(a, b) ==
  add_leaf(add_leaf(<<>>, KeyPackage(PublicKeyOf(Derive(<<1, 0>>)), a)),
           KeyPackage(PublicKeyOf(Derive(<<1, 0>>)), b))

\* two-leaf trees, with both leaves or with one of them blanked
InfoTrees ==
  {info_tree(a, b) : a, b \in InfoCreds}
    \cup {blank_path(info_tree(a, b), i) : a, b \in InfoCreds, i \in {0, 1}}

\* GroupInfo(group_id, epoch, tree, confirmed_transcript_hash,
\* interim_transcript_hash, confirmation)
InfoNew ==
  /\ infoCall.op = "none"
  /\ \E nodes \in InfoTrees :
       info' = [NoInfo EXCEPT
                 !.group_id = 1, !.epoch = 1, !.tree = nodes,
                 !.confirmed_transcript_hash = 1, !.interim_transcript_hash = 1,
                 !.confirmation = 1]
  /\ infoCall' = [NoInfoCall EXCEPT !.op = "new"]
  /\ UNCHANGED <<treeVars, groupVars, appVars, probeVars, keyVars>>

\* the GroupInfo is as its maker built and signed it
untouched ==
  /\ infoCall.op # "none"
  /\ info.signature = NoSignature \/ info.signature.data = to_be_signed(info)

\* sign(index, priv) with a leaf of the tree and any signature key, at the maker
InfoSign ==
  /\ untouched
  /\ \E index \in LeafIndexes(info.tree), priv \in InfoCreds :
     \E done \in {sign(info, index, priv)} :
       /\ info' = done.info
       /\ infoCall' = [NoInfoCall EXCEPT
                         !.op = "sign", !.index = index, !.priv = priv, !.err = done.err]
  /\ UNCHANGED <<treeVars, groupVars, appVars, probeVars, keyVars>>

InfoVerify ==
  /\ infoCall.op # "none"
  /\ \E done \in {verify(info)} :
       infoCall' = [NoInfoCall EXCEPT !.op = "verify", !.err = done.err, !.ok = done.ok]
  /\ UNCHANGED <<info, treeVars, groupVars, appVars, probeVars, keyVars>>

\* a signed GroupInfo reaches a receiver with one signed field changed
InfoChange ==
  /\ untouched
  /\ info.signature # NoSignature
  /\ \E v \in InfoValues, nodes \in InfoTrees, index \in LeafIndexes(info.tree) :
       /\ info' \in {[info EXCEPT !.group_id = v], [info EXCEPT !.epoch = v],
                     [info EXCEPT !.confirmed_transcript_hash = v],
                     [info EXCEPT !.interim_transcript_hash = v],
                     [info EXCEPT !.confirmation = v],
                     [info EXCEPT !.tree = nodes],
                     [info EXCEPT !.signer_index = index]}
       /\ info' # info
  /\ infoCall' = [NoInfoCall EXCEPT !.op = "change"]
  /\ UNCHANGED <<treeVars, groupVars, appVars, probeVars, keyVars>>

InfoNext ==
  \/ InfoNew
  \/ InfoSign
  \/ InfoVerify
  \/ InfoChange

SpecInfo == TreeInit /\ [][InfoNext]_vars

\* ---------------------------------------------------------------- claims
\* the member that made the commit in flight
Committer ==
  CHOOSE m \in Members :
    st[m].via = "commit" /\ st[m].epoch = msg.epoch + 1 /\ st[m].index = msg.sender

\* C1: members in the same epoch hold the same public tree (hence the same
\* root_hash) and the same epoch secret, after any sequence of Add, Update
\* and Remove proposals and Commits.
C1_MembersAgree ==
  \A m1, m2 \in Joined :
    st[m1].epoch = st[m2].epoch =>
      /\ st[m1].tree = st[m2].tree
      /\ st[m1].epoch_secret = st[m2].epoch_secret

\* every member has accepted a second commit, which covered an Update
C1_Witness ==
  /\ AllAccepted
  /\ st[Latest].epoch >= 2
  /\ msg.updates # <<>>
  /\ Cardinality(Roster) >= 2
  /\ \E m \in Roster : st[m].via = "handle"

\* the receiver is not the sender, its leaf in the pre-merge tree is not
\* blank and is its own (not the slot of a removed member given to another),
\* and its private key is consistent with that tree
decap_ready(cred, applied, cm) ==
  /\ applied.index # cm.sender
  /\ NodeIndex(applied.index) < Len(applied.tree)
  /\ has_value(node_at(applied.tree, NodeIndex(applied.index)))
  /\ node_at(applied.tree, NodeIndex(applied.index)).cred = cred
  /\ consistent(applied.tree_priv, applied.tree)

\* the nodes of the direct path of leaf from, from its overlap with the
\* direct path of leaf index up to the root
shared_path(nodes, from, index) ==
  {n \in SeqToSet(dirpath(NodeIndex(from), NodeCount(size(nodes)))) :
     in_path(NodeIndex(index), n)}

decap_agrees(applied, cm, kem, sender_priv) ==
  /\ kem.err = ""
  /\ \A n \in shared_path(applied.tree, cm.sender, applied.index) :
       /\ kem.priv.path_secrets[n] # NoSecret
       /\ kem.priv.path_secrets[n] = sender_priv.path_secrets[n]

\* the decap a receiver in state runs on the commit cm
decap_of(state, applied, cm) ==
  decap(applied.tree_priv, cm.sender, applied.tree,
        GroupContext(state.epoch, applied.tree), cm.path)

receives(cred, state, applied, cm, sender_priv) ==
  decap_ready(cred, applied, cm) =>
    decap_agrees(applied, cm, decap_of(state, applied, cm), sender_priv)

\* C2: a member other than the sender, with a non-blank leaf and a private
\* key consistent with the pre-merge tree, decaps the sender's DirectPath
\* without error and then holds the sender's path secret at every node of the
\* sender's direct path from their overlap up to the root.
C2_DecapAgrees ==
  msg.present =>
    \A m \in Joined :
      st[m].epoch = msg.epoch /\ apply_ok(st[m], msg) =>
        receives(m, st[m], apply(st[m], msg).state, msg, st[Committer].tree_priv)

decap_shares(cred, state, applied, cm) ==
  /\ decap_ready(cred, applied, cm)
  /\ decap_of(state, applied, cm).err = ""
  /\ Cardinality(shared_path(applied.tree, cm.sender, applied.index)) >= 2

\* one receiver has handled the commit, another is about to decap a path
\* that overlaps its own below the root
C2_Witness ==
  /\ msg.present
  /\ \E h \in Joined : st[h].via = "handle" /\ st[h].epoch = msg.epoch + 1
  /\ \E m \in Joined :
       /\ st[m].epoch = msg.epoch
       /\ apply_ok(st[m], msg)
       /\ decap_shares(m, st[m], apply(st[m], msg).state, msg)

\* j has built its State from the Welcome of the commit in flight
joined_by_welcome(j) ==
  st[j].via = "join" /\ msg.welcome.present /\ st[j].epoch = msg.welcome.epoch

\* the nodes on the direct paths of both leaves
common_path(nodes, a, b) ==
  SeqToSet(dirpath(NodeIndex(a), NodeCount(size(nodes))))
    \cap SeqToSet(dirpath(NodeIndex(b), NodeCount(size(nodes))))

joiner_agrees(new, committer) ==
  /\ new.epoch = committer.epoch
  /\ new.tree = committer.tree
  /\ new.epoch_secret = committer.epoch_secret
  /\ \A n \in common_path(new.tree, new.index, committer.index) :
       /\ new.tree_priv.path_secrets[n] # NoSecret
       /\ new.tree_priv.path_secrets[n] = committer.tree_priv.path_secrets[n]

\* C3: a member that joins from the Welcome of a commit has the committer's
\* next state (epoch, tree, epoch secret), and holds the committer's path
\* secret at every node their direct paths share, up to the root.
C3_JoinerAgrees ==
  \A j \in Joined : joined_by_welcome(j) => joiner_agrees(st[j], st[Committer])

\* a joiner whose direct path meets the committer's below the root
C3_Witness ==
  \E j \in Joined :
    /\ joined_by_welcome(j)
    /\ Cardinality(common_path(st[j].tree, st[j].index, st[Committer].index)) >= 2

\* C4: after every encap (the committer) and every decap with the merge of
\* the same path (a receiver), the member's private key is consistent with
\* its public tree.
C4_PrivateConsistent ==
  \A m \in Joined :
    st[m].via \in {"commit", "handle"} => consistent(st[m].tree_priv, st[m].tree)

\* the public keys of the secrets r has ever held
keys_held(r) == {PublicKeyOf(Derive(s)) : s \in held[r]}

\* the HPKE ciphertexts of a DirectPath
ciphertexts(path) ==
  UNION {SeqToSet(path.nodes[i].node_secrets) : i \in 1 .. Len(path.nodes)}

\* the participants that have held secrets and have no leaf in the tree the
\* commit in flight made
Outsiders == {r \in Members : held[r] # {} /\ r \notin Creds(st[Committer].tree)}

\* C5: no ciphertext of a commit's DirectPath is encrypted to a public key
\* whose secret a participant outside the commit's tree has ever held; so a
\* removed member cannot derive the commit secret.
C5_RemovedLockedOut ==
  msg.present =>
    \A r \in Outsiders : \A ct \in ciphertexts(msg.path) : ct.to \notin keys_held(r)

\* the commit in flight removes a member that held path secrets, and its
\* DirectPath carries ciphertexts
C5_Witness ==
  /\ msg.present
  /\ msg.removes # <<>>
  /\ ciphertexts(msg.path) # {}
  /\ \E r \in Outsiders : joined(st[r]) /\ Cardinality(held[r]) >= 2

LastIsLeaf(nodes) == Len(nodes) % 2 = 1 /\ nodes[Len(nodes)].t = "leaf"

\* C7: the node array of a TreeKEMPublicKey is empty or has odd length
\* 2 * leaf_count - 1, whatever sequence of add_leaf, update_leaf,
\* blank_path, merge, encap and truncate produced it.
C7_NodeCountOdd == Len(tree) = 0 \/ Len(tree) % 2 = 1

\* C8: after the Removes of a commit and truncate(), the public tree is empty
\* or ends in a non-blank leaf, and the remaining members' states are equal.
C8_TruncatedEndsInLeaf ==
  /\ Len(truncated) = 0 \/ LastIsLeaf(truncated)
  /\ \A m1, m2 \in Roster :
       joined(st[m1]) /\ joined(st[m2]) /\ st[m1].epoch = st[m2].epoch =>
         st[m1].tree = st[m2].tree /\ st[m1].epoch_secret = st[m2].epoch_secret

\* C9 as stated: after every mutating operation the last entry of the node
\* array is not blank.
C9_LastNeverBlank == Len(tree) = 0 \/ has_value(tree[Len(tree)])

LastNotBlank(nodes) == Len(nodes) = 0 \/ has_value(nodes[Len(nodes)])

\* C9: truncate() leaves the array empty or with a non-blank last entry, and
\* add_leaf, update_leaf, merge and encap keep a non-blank last entry
\* non-blank; blank_path alone can leave the last entry blank.
C9_TruncateRestores ==
  [][/\ lastOp' = "truncate" => LastNotBlank(tree')
     /\ lastOp' \in {"add_leaf", "update_leaf", "merge", "encap"} /\ LastNotBlank(tree)
          => LastNotBlank(tree')]_vars

\* truncate() has run on a tree that keeps a blank slot inside
C9_Witness ==
  /\ lastOp = "truncate"
  /\ Len(tree) >= 3
  /\ \E i \in 1 .. Len(tree) : ~has_value(tree[i])

UnmergedBelow(nodes) ==
  \A n \in 0 .. (Len(nodes) - 1) :
    node_at(nodes, n).t = "parent" =>
      \A l \in SeqToSet(node_at(nodes, n).unmerged) :
        /\ NodeIndex(l) < Len(nodes)
        /\ NodeIndex(l) # n
        /\ in_path(NodeIndex(l), n)

\* C10: every non-blank parent's unmerged_leaves holds only leaves that lie
\* strictly below it in the current tree.
C10_UnmergedBelow == UnmergedBelow(tree)

\* a parent node has an unmerged leaf
C10_Witness ==
  \E i \in 1 .. Len(tree) : tree[i].t = "parent" /\ tree[i].unmerged # <<>>

\* resolve(index) returns: it reads size() at a blank parent, and size() is
\* defined for an empty array and for arrays of odd length only
RECURSIVE resolve_returns(_, _)
resolve_returns(nodes, index) ==
  IF has_value(node_at(nodes, index)) \/ level(index) = 0 THEN TRUE
  ELSE /\ size_ok(nodes)
       /\ resolve_returns(nodes, left(index))
       /\ resolve_returns(nodes, right(index, NodeCount(size(nodes))))

HasLeaf(nodes) == \E i \in 1 .. Len(nodes) : nodes[i].t = "leaf"

\* C11: in every reachable public tree with at least one non-blank leaf,
\* resolve(root) returns a non-empty list.  The root is
\* root(NodeCount(size())), so the tree must have a size.
C11_ResolveRootNonEmpty ==
  HasLeaf(tree) =>
    /\ size_ok(tree)
    /\ resolve(tree, root(NodeCount(size(tree)))) # <<>>

\* C12: a merge(from, path) that throws (the DirectPath has another number of
\* nodes than dirpath(from)) leaves every slot of the public tree, the
\* sender's leaf included, as it was before the call.
C12_FailedMergeUnmodified ==
  lastOp = "merge" /\ call.err # "" => tree = call.before

\* the errors decap throws as ProtocolError
ProtocolErrors ==
  {"Malformed direct path", "No overlap in path", "Malformed direct path node",
   "No private key to decrypt path secret"}

\* the direct path of the sender in the tree a decap was called with
probe_dp(p) == dirpath(NodeIndex(p.from), NodeCount(size(p.before.tree)))

\* the position in it of the overlap with the receiver's direct path
probe_dpi(p) == overlap_pos(NodeIndex(p.before.tree_priv.index), probe_dp(p), 1)

\* the resolution of the copath node below the overlap node
probe_res(p) ==
  resolve(p.before.tree,
          copath_at(p.from, probe_dp(p), probe_dpi(p), NodeCount(size(p.before.tree))))

WrongNodes(p) == Len(probe_dp(p)) # Len(p.path.nodes)

HasOverlap(p) == ~WrongNodes(p) /\ probe_dpi(p) <= Len(probe_dp(p))

WrongCiphertexts(p) ==
  HasOverlap(p) /\ Len(probe_res(p)) # Len(p.path.nodes[probe_dpi(p)].node_secrets)

NoSecretHeld(p) ==
  /\ HasOverlap(p)
  /\ \A j \in 1 .. Len(probe_res(p)) :
       p.before.tree_priv.path_secrets[probe_res(p)[j]] = NoSecret

\* C13: decap throws ProtocolError when the DirectPath has another number of
\* nodes than dirpath(from), when the number of ciphertexts at the overlap
\* node is not the size of the resolution of the copath node, or when the
\* receiver holds no path secret for any node of that resolution; and a
\* decap that throws leaves the receiver's path_secrets as they were.
C13_DecapFailures ==
  probe.op = "decap" =>
    /\ WrongNodes(probe) \/ WrongCiphertexts(probe) \/ NoSecretHeld(probe)
         => probe.err \in ProtocolErrors
    /\ probe.err # ""
         => probe.after.tree_priv.path_secrets = probe.before.tree_priv.path_secrets

\* a member that holds path secrets, none of them for the resolution of the
\* copath node, is refused
C13_Witness ==
  /\ probe.op = "decap"
  /\ ~WrongCiphertexts(probe)
  /\ NoSecretHeld(probe)
  /\ probe.err = "No private key to decrypt path secret"
  /\ probe.after.tree_priv.path_secrets # NoSecrets

\* index is the smallest leaf index whose slot is blank in nodes, or the
\* number of leaves when no leaf slot is blank
SmallestBlankLeaf(nodes, index) ==
  /\ index <= size(nodes)
  /\ \A i \in 0 .. (index - 1) : has_value(node_at(nodes, NodeIndex(i)))
  /\ index < size(nodes) => ~has_value(node_at(nodes, NodeIndex(index)))

\* the slot n after add_leaf put leaf index into the array
AddedSlot(before, after, index, n) ==
  IF n = NodeIndex(index) THEN TRUE
  ELSE IF n >= Len(before) THEN node_at(after, n) = Blank
  ELSE IF n \in SeqToSet(dirpath(NodeIndex(index), Len(after))) /\ has_value(node_at(before, n))
       THEN /\ node_at(after, n).t = "parent"
            /\ node_at(after, n).key = node_at(before, n).key
            /\ node_at(after, n).unmerged = Append(node_at(before, n).unmerged, index)
  ELSE node_at(after, n) = node_at(before, n)

\* C14: add_leaf(kp) puts kp at the smallest leaf index whose slot is blank,
\* or at a new leaf on the right, the array growing to 2 * leaves - 1 slots
\* with every other new slot blank; it returns that index and appends it to
\* the unmerged_leaves of the non-blank nodes of the new leaf's direct path
\* and of no other node.
C14_AddLeaf ==
  lastOp = "add_leaf" =>
    /\ SmallestBlankLeaf(call.before, call.index)
    /\ Len(tree) = IF call.index < size(call.before) THEN Len(call.before)
                   ELSE 2 * (call.index + 1) - 1
    /\ node_at(tree, NodeIndex(call.index)) = LeafNode(call.kp)
    /\ \A n \in 0 .. (Len(tree) - 1) : AddedSlot(call.before, tree, call.index, n)

\* a leaf put into a blank slot below a parent that is not blank
C14_Witness ==
  /\ lastOp = "add_leaf"
  /\ call.index < size(call.before)
  /\ \E n \in SeqToSet(dirpath(NodeIndex(call.index), Len(tree))) :
       /\ has_value(node_at(call.before, n))
       /\ node_at(tree, n).unmerged # <<>>

\* what one step does to the State of a member: nothing; or handle(proposal),
\* which appends to pending_proposals in the same epoch; or commit() or
\* handle(commit), which give the State of the next epoch
EpochStep(old, new) ==
  \/ new = old
  \/ /\ new.epoch = old.epoch
     /\ Len(new.pending) = Len(old.pending) + 1
     /\ SubSeq(new.pending, 1, Len(old.pending)) = old.pending
  \/ /\ new.epoch = old.epoch + 1
     /\ new.via \in {"commit", "handle"}

\* a commit of another epoch than the receiver's is refused
Refused(p) == p.err # "" /\ p.after = p.before

\* C15: the epoch of a State never decreases: handling a proposal appends it
\* to pending_proposals and keeps the epoch, commit() and handle(commit) at
\* epoch e give a State at epoch e + 1, and a commit of an older or newer
\* epoch than the receiver's is rejected and leaves the receiver's State as
\* it was.
C15_EpochMonotonic ==
  [][/\ \A m \in Members : joined(st[m]) => EpochStep(st[m], st'[m])
     /\ probe'.op = "handle" /\ probe'.epoch # probe'.before.epoch
          => Refused(probe') /\ st' = st]_vars

\* a member that took the commit of epoch 0 is handed it again
C15_Witness ==
  /\ probe.op = "handle"
  /\ probe.before.via = "handle"
  /\ probe.epoch < probe.before.epoch
  /\ Refused(probe)

\* one proposal applied to the public tree
apply_one(nodes, p) ==
  IF p.type = "update" THEN update_leaf(nodes, p.sender, p.kp)
  ELSE IF p.type = "remove" THEN blank_path(nodes, p.removed)
  ELSE add_leaf(nodes, p.kp)

\* the proposals of one type applied in the order they stand in the list
RECURSIVE apply_pass(_, _, _)
apply_pass(nodes, proposals, type) ==
  IF proposals = <<>> THEN nodes
  ELSE apply_pass(IF Head(proposals).type = type THEN apply_one(nodes, Head(proposals))
                  ELSE nodes,
                  Tail(proposals), type)

\* all Updates, then all Removes and truncate(), then all Adds
InOrder(nodes, proposals) ==
  apply_pass(truncate(apply_pass(apply_pass(nodes, proposals, "update"),
                                 proposals, "remove")),
             proposals, "add")

\* the State a commit() gave member c in this step
Committed(old, new) == old.via # "none" /\ new.via = "commit" /\ new.epoch = old.epoch + 1

\* leaf i is removed by proposals, is not the last leaf of nodes, and no leaf
\* below i is blank or removed
RemovedInside(nodes, proposals, i) ==
  /\ \E k \in 1 .. Len(proposals) : proposals[k] = Remove(i)
  /\ i < size(nodes) - 1
  /\ \A l \in 0 .. (i - 1) :
       /\ has_value(node_at(nodes, NodeIndex(l)))
       /\ \A k \in 1 .. Len(proposals) : proposals[k] # Remove(l)

\* C16: the tree a commit produces is the tree after all Updates, then all
\* Removes and truncate(), then all Adds, in whatever order the proposals
\* were received (the committer's own direct path is then set by the
\* commit's DirectPath); so an Add committed with the Remove of a leaf i
\* that is not the last, no lower leaf being blank, is placed at leaf i.
C16_ApplyOrder ==
  [][\A c \in Members :
       Committed(st[c], st'[c]) /\ msg' # msg =>
         /\ st'[c].tree = merge(InOrder(st[c].tree, st[c].pending), st[c].index, msg'.path)
         /\ \A i \in 0 .. (MaxLeaves - 1) :
              RemovedInside(st[c].tree, st[c].pending, i)
                /\ OfType(st[c].pending, "add") # <<>>
              => key_package_of(node_at(st'[c].tree, NodeIndex(i)))
                   = OfType(st[c].pending, "add")[1].kp]_vars

\* a commit of one Add and one Remove that put the new leaf where the removed
\* one was, another leaf standing to its right
C16_Witness ==
  /\ msg.present
  /\ Len(msg.adds) = 1
  /\ Len(msg.removes) = 1
  /\ msg.removes[1].removed < size(msg.welcome.tree) - 1
  /\ key_package_of(node_at(msg.welcome.tree, NodeIndex(msg.removes[1].removed)))
       = msg.adds[1].kp

\* the direct path of the leaf the last call was made on, in the tree it left
call_dp == dirpath(NodeIndex(call.index), Len(tree))

\* C17: after a merge(from, path) that returns, the sender's leaf holds
\* path.leaf_key_package and the i-th node of dirpath(from) is a parent with
\* public key path.nodes[i].public_key and no unmerged leaves, whatever the
\* slots held before.
C17_Merge ==
  lastOp = "merge" /\ call.err = "" =>
    /\ Len(call.path.nodes) = Len(call_dp)
    /\ node_at(tree, NodeIndex(call.index)) = LeafNode(call.path.leaf_key_package)
    /\ \A i \in 1 .. Len(call_dp) :
         node_at(tree, call_dp[i]) = ParentNode(call.path.nodes[i].public_key, <<>>)

\* a merge over a blank parent and over a parent that had an unmerged leaf
C17_Witness ==
  /\ lastOp = "merge"
  /\ call.err = ""
  /\ \E i \in 1 .. Len(call_dp) : ~has_value(node_at(call.before, call_dp[i]))
  /\ \E i \in 1 .. Len(call_dp) : node_at(call.before, call_dp[i]).unmerged # <<>>

\* the slots the last call may write: the leaf and its direct path
CallPath == {NodeIndex(call.index)} \cup SeqToSet(call_dp)

\* every slot outside CallPath is as before, or is a new blank slot
FrameKept ==
  /\ Len(tree) >= Len(call.before)
  /\ lastOp # "add_leaf" => Len(tree) = Len(call.before)
  /\ \A n \in 0 .. (Len(tree) - 1) :
       n \notin CallPath =>
         node_at(tree, n) = IF n < Len(call.before) THEN node_at(call.before, n) ELSE Blank

\* C18: update_leaf(i, kp) leaves kp in leaf i and every parent on the
\* direct path of i blank; blank_path(i) leaves leaf i and every parent on
\* its direct path blank; add_leaf, update_leaf, blank_path and merge change
\* no slot but the target leaf and the nodes of its direct path (and, for
\* add_leaf, the new blank slots).
C18_Frame ==
  /\ lastOp = "update_leaf" =>
       /\ node_at(tree, NodeIndex(call.index)) = LeafNode(call.kp)
       /\ \A n \in SeqToSet(call_dp) : node_at(tree, n) = Blank
  /\ lastOp = "blank_path" => \A n \in CallPath : node_at(tree, n) = Blank
  /\ lastOp \in {"add_leaf", "update_leaf", "blank_path", "merge"} => FrameKept

\* an update_leaf that replaced a key package, blanked a parent, and left a
\* parent outside the direct path in place
C18_Witness ==
  /\ lastOp = "update_leaf"
  /\ has_value(node_at(call.before, NodeIndex(call.index)))
  /\ node_at(call.before, NodeIndex(call.index)) # LeafNode(call.kp)
  /\ \E n \in SeqToSet(call_dp) : has_value(node_at(call.before, n))
  /\ \E n \in 0 .. (Len(tree) - 1) : n \notin CallPath /\ node_at(tree, n).t = "parent"

\* the resolution of node n as section 4.D of the specification defines it
RECURSIVE resolution(_, _)
resolution(nodes, n) ==
  IF level(n) = 0
  THEN IF has_value(node_at(nodes, n)) THEN <<n>> ELSE <<>>
  ELSE IF has_value(node_at(nodes, n))
       THEN <<n>> \o [i \in 1 .. Len(node_at(nodes, n).unmerged) |->
                       NodeIndex(node_at(nodes, n).unmerged[i])]
       ELSE resolution(nodes, left(n)) \o resolution(nodes, right(n, Len(nodes)))

\* C19: for every node n of every reachable tree resolve(n) returns the
\* resolution of n: [n] for a non-blank leaf, [n] and the node indices of
\* its unmerged leaves in insertion order for a non-blank parent, [] for a
\* blank leaf, and the resolutions of the two children for a blank parent.
C19_ResolveReference ==
  \A n \in 0 .. (Len(tree) - 1) :
    /\ resolve_returns(tree, n)
    /\ resolve(tree, n) = resolution(tree, n)

\* res names slots of nodes that are not blank, each at most once
Sound(nodes, res) ==
  /\ \A j \in 1 .. Len(res) : res[j] < Len(nodes) /\ has_value(node_at(nodes, res[j]))
  /\ \A j, k \in 1 .. Len(res) : res[j] = res[k] => j = k

sealed_to(nodes, node_secrets, res) ==
  /\ Len(node_secrets) = Len(res)
  /\ \A j \in 1 .. Len(res) :
       node_secrets[j].to = public_key(node_at(nodes, res[j]))

\* path has one RatchetNode for every node of dp; the i-th carries the key of
\* the i-th "path" step of the leaf's secret and is sealed to the resolution,
\* in nodes, of the i-th copath node
path_shape(nodes, from, dp, path) ==
  /\ Len(path.nodes) = Len(dp)
  /\ \A i \in 1 .. Len(dp) :
       /\ path.nodes[i].public_key.pk
            = <<path.leaf_key_package.init_key.pk[1],
                path.leaf_key_package.init_key.pk[2] + i>>
       /\ sealed_to(nodes, path.nodes[i].node_secrets,
                    resolution(nodes, sibling(IF i = 1 THEN NodeIndex(from) ELSE dp[i - 1],
                                              Len(nodes))))

\* C21: the DirectPath encap(from, ...) returns has one node for every entry
\* of dirpath(from), in direct-path order, and its i-th node carries one
\* ciphertext for every member of the resolution of the i-th copath node, in
\* resolution order, the resolution being taken in the tree before the merge.
C21_EncapShape ==
  lastOp = "encap" =>
    path_shape(call.before, call.index,
               dirpath(NodeIndex(call.index), Len(call.before)), call.path)

\* an encap over two parents whose second node is sealed to a parent and to
\* the leaf unmerged at it, in that order
C21_Witness ==
  /\ lastOp = "encap"
  /\ Len(call.path.nodes) = 2
  /\ Len(call.path.nodes[2].node_secrets) = 2
  /\ call.path.nodes[2].node_secrets[1].to # call.path.nodes[2].node_secrets[2].to

\* the nodes of path hold the chain of "path" steps that starts with secret
has_chain(priv, path, secret) ==
  \A k \in 1 .. Len(path) :
    priv.path_secrets[path[k]] = <<secret[1], secret[2] + k - 1>>

\* path_secrets is defined at the nodes of path and nowhere else
only_on(priv, path) ==
  \A n \in NodeIndexes :
    priv.path_secrets[n] # NoSecret <=> n \in SeqToSet(path)

\* the nodes implant(start, ...) writes: path from start on
walk_from(path, start) == SubSeq(path, position(path, start), Len(path))

\* after has the chain on walk with no cached key there, and is before elsewhere
implanted(before, after, walk, secret) ==
  /\ has_chain(after, walk, secret)
  /\ \A n \in SeqToSet(walk) : after.private_key_cache[n] = NoSecret
  /\ \A n \in NodeIndexes \ SeqToSet(walk) :
       /\ after.path_secrets[n] = before.path_secrets[n]
       /\ after.private_key_cache[n] = before.private_key_cache[n]
  /\ after.index = before.index

\* C22: after create(suite, size, index, leaf_secret), and so in the key encap
\* returns, path_secrets is defined at exactly the leaf and the nodes of its
\* direct path up to the root, the leaf holds leaf_secret and every node
\* holds the "path" step of the secret of the node below it; implant(start,
\* size, s) writes such a chain from start to the root, erases the cached
\* private key of every node it writes and touches no other node.
C22_CreateImplant ==
  /\ privCall.op \in {"create", "encap"} =>
       /\ tree_priv.index = privCall.node \div 2
       /\ only_on(tree_priv, own_path(tree_priv.index, privCall.leaves))
       /\ has_chain(tree_priv, own_path(tree_priv.index, privCall.leaves), privCall.secret)
  /\ privCall.op = "implant" =>
       implanted(privCall.before, tree_priv,
                 walk_from(own_path(tree_priv.index, privCall.leaves), privCall.node),
                 privCall.secret)

\* an implant from a parent to the root over cached private keys, the key
\* holding another secret at its leaf
C22_Witness ==
  /\ privCall.op = "implant"
  /\ level(privCall.node) > 0
  /\ Len(walk_from(own_path(tree_priv.index, privCall.leaves), privCall.node)) = 2
  /\ \A n \in SeqToSet(walk_from(own_path(tree_priv.index, privCall.leaves), privCall.node)) :
       /\ privCall.before.private_key_cache[n] # NoSecret
       /\ privCall.before.path_secrets[n] # tree_priv.path_secrets[n]
  /\ tree_priv.path_secrets[NodeIndex(tree_priv.index)] = <<2, 0>>

\* priv holds a path secret or a cached private key for a parent node that
\* is blank in nodes
keeps_blanked(priv, nodes) ==
  \E n \in 0 .. (Len(nodes) - 1) :
    /\ level(n) > 0
    /\ ~has_value(node_at(nodes, n))
    /\ (priv.path_secrets[n] # NoSecret \/ priv.private_key_cache[n] # NoSecret)

\* C23: no member holds a path secret or a cached private key for a parent
\* node that is blank in its public tree: once an Update or a Remove has
\* blanked a parent on the member's direct path, the member's entries for
\* that node are gone.
C23_BlankedSecretsErased ==
  \A m \in Joined : ~keeps_blanked(st[m].tree_priv, st[m].tree)

\* the tree hash of node index computed from the node contents alone
RECURSIVE tree_hash(_, _)
tree_hash(nodes, index) ==
  IF level(index) = 0
  THEN leaf_hash(index, nodes[index + 1])
  ELSE parent_hash(index, nodes[index + 1],
                   tree_hash(nodes, left(index)),
                   tree_hash(nodes, right(index, Len(nodes))))

\* every cached hash that is not empty is the tree hash of its node
Fresh(nodes, hs) ==
  \A n \in 0 .. (Len(nodes) - 1) :
    hs[n + 1] # NoHash => hs[n + 1] = tree_hash(nodes, n)

\* C24: the cached node hashes are never stale: after any sequence of
\* add_leaf, update_leaf, blank_path, truncate and merge, every cached hash
\* that is not empty, and so root_hash(), is the tree hash computed from
\* scratch over the current node contents and the current tree size.
C24_HashCacheFresh ==
  size_ok(tree) => Fresh(tree, hashes)

\* every cached private key is the key of the path secret now held at its node
Coherent(priv) ==
  \A n \in NodeIndexes :
    priv.private_key_cache[n] # NoSecret =>
      /\ priv.path_secrets[n] # NoSecret
      /\ priv.private_key_cache[n] = priv.path_secrets[n]

\* C25: after any sequence of create, joiner, implant, private_key,
\* set_leaf_secret, decap and truncate, every node with a cached private
\* key has a path secret and the cached key is the one derived from that
\* secret, so private_key(n) returns the key of the secret stored at n.
C25_CacheCoherent == Coherent(tree_priv)

\* sign(index, priv) throws exactly when the leaf at index is blank or its
\* credential has another key than priv, and then changes nothing
SignRefuses(gi, done, after) ==
  /\ done.err # "" <=>
       \/ ~has_value(key_package(gi.tree, done.index))
       \/ SigPublicKey(key_package(gi.tree, done.index).cred) # SigPublicKey(done.priv)
  /\ done.err # "" => after = gi

\* otherwise it records the signer and a signature over the GroupInfo with
\* that signer in it, which verify() accepts
SignSigns(gi, done, after) ==
  done.err = "" =>
    /\ after = [gi EXCEPT !.signer_index = done.index, !.signature = after.signature]
    /\ after.signature = Sign(done.priv, to_be_signed(after))
    /\ verify(after) = [err |-> "", ok |-> TRUE]

\* verify() of a GroupInfo that is not as it was signed returns false
VerifyRejects(gi, done) ==
  gi.signature # NoSignature /\ gi.signature.data # to_be_signed(gi) =>
    done.err = "" /\ ~done.ok

\* C26: GroupInfo::sign(index, priv) fails with InvalidParameter and leaves
\* signer_index and signature unchanged when the leaf at index is blank or
\* its credential's public key is not that of priv; otherwise it records
\* signer_index = index and a signature over the group info with that
\* signer_index, after which verify() returns true; and verify() returns
\* false once a signed field (group_id, epoch, tree, a transcript hash,
\* confirmation, signer_index) has been changed.
C26_SignVerify ==
  [][/\ infoCall'.op = "sign" =>
          SignRefuses(info, infoCall', info') /\ SignSigns(info, infoCall', info')
     /\ infoCall'.op = "verify" => VerifyRejects(info', infoCall')]_vars

====
